---- MODULE Spec2Model ----
(***************************************************************************)
(* Model of the reconciliation core of github-issue-manager (gim):        *)
(* the import command (validation gate, board setup, importIssues loop),  *)
(* the export command, the identity/hash body codec and the content hash. *)
(* The tracker (GitHub through the gh CLI) is modelled by the remote      *)
(* state the calls read and write.                                        *)
(***************************************************************************)
EXTENDS Integers, Sequences, FiniteSets, TLC

(***************************************************************************)
(* Values.  A JavaScript property that is absent (undefined) is UNDEF; it  *)
(* differs from the empty string, and JSON.stringify drops it.             *)
(***************************************************************************)
UNDEF == "<undefined>"

\* the element of a singleton set; The({ e(x) : x \in { v } }) is e with x bound to the value of v
The(S) == CHOOSE x \in S : TRUE

\* JavaScript truthiness of an optional string
Truthy(s) == s # UNDEF /\ s # ""

\* String.prototype.trim on the strings of the model: " " is whitespace only,
\* "d1 " is "d1" followed by a line break
Trim(s) ==
  CASE s = " "   -> ""
    [] s = "d1 " -> "d1"
    [] OTHER     -> s

\* s && s.trim()  as a condition
TruthyTrim(s) == Truthy(s) /\ Trim(s) # ""

\* Bounds of the model
MaxRuns == 2
MaxEdits == 1

\* the longest body the codec is run on, in segments
MaxBody == 3

\* the longest dataset the validation gate is run on, in rows
MaxRows == 3

\* the longest file the migration is run on, in issues, and the number of
\* migration runs
MaxIssues == 2
MaxMigrations == 2

\* the v4 UUIDs generateUUID returns, in the order of the calls: one draw
\* of crypto.randomUUID per element, none of them in use before
UUIDDraws ==
  { << "g1", "g2", "g3", "g4", "g5" >>, << "g3", "g1", "g5", "g2", "g4" >> }

GeneratedUUIDs == { "g1", "g2", "g3", "g4", "g5" }

\* Identity tokens: "a", "b" are canonical v4 UUIDs, "A" is "a" in upper case,
\* "abc" is hexadecimal but no UUID, "zz" is not hexadecimal
isValidUUID(value) == value \in {"a", "b", "A"} \cup GeneratedUUIDs

\* the character class [a-f0-9\-]+ under the i flag
HexLike(value) == value \in {"a", "b", "A", "abc"} \cup GeneratedUUIDs

(***************************************************************************)
(* Content hash: SHA-256 of JSON.stringify of the five logical fields.     *)
(* The digest is modelled as the serialized tuple itself (injective);      *)
(* an undefined field is dropped by JSON.stringify, which keeps it         *)
(* distinct from every string, the empty one included.                     *)
(***************************************************************************)
NoHash == <<>>

computeContentHashWithTitle(issue) ==
  <<issue.Description, issue.Scope, issue.Size, issue.Priority, issue.Milestone,
    issue.Title>>

computeContentHashWithoutPriority(issue) ==
  <<issue.Description, issue.Scope, issue.Size, UNDEF, issue.Milestone>>

computeContentHash(issue) ==
  <<issue.Description, issue.Scope, issue.Size, issue.Priority, issue.Milestone>>

(***************************************************************************)
(* Issue bodies are sequences of segments: an identity marker, a hash      *)
(* marker or a run of text.                                                *)
(***************************************************************************)
IdSeg(id)     == [kind |-> "id",   id |-> id, hash |-> NoHash, text |-> ""]
HashSeg(h)    == [kind |-> "hash", id |-> "", hash |-> h,      text |-> ""]
TextSeg(t)    == [kind |-> "text", id |-> "", hash |-> NoHash, text |-> t]

\* an identity marker spelled in lower case, <!-- gfs-id: ... -->
LowerIdSeg(id) == [kind |-> "idlc", id |-> id, hash |-> NoHash, text |-> ""]

\* the three patterns of the codec: "id" is /<!-- GFS-ID:\s*([a-f0-9\-]+)\s*-->/i,
\* "hash" is /<!-- GFS-HASH:\s*([a-f0-9]+)\s*-->/i and "comment" is the
\* case-sensitive /<!-- GFS-ID:.*-->/, which takes any content
Matches(seg, kind) ==
  \/ kind = "id" /\ seg.kind \in { "id", "idlc" } /\ HexLike(seg.id)
  \/ kind = "hash" /\ seg.kind = "hash"
  \/ kind = "comment" /\ seg.kind = "id"

\* index of the first segment satisfying the marker test, 0 if none
RECURSIVE FirstIdx(_, _, _)
FirstIdx(body, kind, i) ==
  IF i > Len(body) THEN 0
  ELSE IF Matches(body[i], kind) THEN i
  ELSE FirstIdx(body, kind, i + 1)

NoId == "<null>"

extractGfsId(body) ==
  LET i == FirstIdx(body, "id", 1) IN IF i = 0 THEN NoId ELSE body[i].id

extractContentHash(body) ==
  LET i == FirstIdx(body, "hash", 1) IN IF i = 0 THEN NoHash ELSE body[i].hash

\* String.replace(pattern, ''): the body without its i-th segment
Without(body, i) ==
  IF i = 0 THEN body ELSE SubSeq(body, 1, i - 1) \o SubSeq(body, i + 1, Len(body))

insertGfsIdAtEnd(body, gfsId) ==
  Without(body, FirstIdx(body, "id", 1)) \o << IdSeg(gfsId) >>

\* the first identity marker is removed and the new one put on top
insertGfsId(body, gfsId) ==
  << IdSeg(gfsId) >> \o Without(body, FirstIdx(body, "id", 1))

\* the first hash marker is removed; the new one goes after the first
\* GFS-ID comment, or on top when there is none
insertContentHash(body, hash) ==
  LET cleaned == Without(body, FirstIdx(body, "hash", 1))
      hasGfsId == FirstIdx(cleaned, "comment", 1)
  IN  IF hasGfsId # 0
        THEN SubSeq(cleaned, 1, hasGfsId) \o << HashSeg(hash) >>
               \o SubSeq(cleaned, hasGfsId + 1, Len(cleaned))
        ELSE << HashSeg(hash) >> \o cleaned

formatIssueBody(issue) ==
  << IdSeg(issue.GFS_ID), HashSeg(computeContentHash(issue)),
     TextSeg(issue.Description) >>

(***************************************************************************)
(* Validation gate: validateIssues(issues, config, fix).  A finding is     *)
(* [row, kind]; rows count from 2 (header row).  The import command calls  *)
(* it with fix = false and reads the errors.                               *)
(***************************************************************************)
Err(row, kind) == [row |-> row, kind |-> kind]

RegeneratesMissingOnly(issue, fix) == fix /\ ~TruthyTrim(issue.GFS_ID)

\* with fix, a missing or malformed identity is replaced (lines 100-114)
Regenerates(issue, fix) ==
  fix /\ (~TruthyTrim(issue.GFS_ID) \/ ~isValidUUID(issue.GFS_ID))

OutOfVocabularyAlways(vocabulary, value) == Truthy(value) /\ value \notin vocabulary

\* the enum test of lines 143, 150 and 157: a configured list, a value, and
\* the value not in the list
OutOfVocabulary(vocabulary, value) ==
  vocabulary # {} /\ Truthy(value) /\ value \notin vocabulary

RowErrorsFirstOnly(issue, row, seen, config) ==
  IF ~Truthy(issue.GFS_ID) \/ Trim(issue.GFS_ID) = "" THEN << Err(row, "id_required") >>
  ELSE IF ~isValidUUID(issue.GFS_ID) THEN << Err(row, "id_invalid") >>
  ELSE IF issue.GFS_ID \in seen THEN << Err(row, "dup_id") >>
  ELSE IF ~Truthy(issue.Title) \/ Trim(issue.Title) = ""
    THEN << Err(row, "title_required") >>
  ELSE IF config.scopes # {} /\ Truthy(issue.Scope) /\ issue.Scope \notin config.scopes
    THEN << Err(row, "scope_invalid") >>
  ELSE << >>

\* the errors of one row, in the order the code pushes them; issue is the
\* row after the identity was replaced, if it was
RowErrors(issue, row, seen, config) ==
  (IF ~Truthy(issue.GFS_ID) \/ Trim(issue.GFS_ID) = ""
     THEN << Err(row, "id_required") >>
     ELSE IF ~isValidUUID(issue.GFS_ID) THEN << Err(row, "id_invalid") >>
     ELSE << >>)
  \o (IF Truthy(issue.GFS_ID) /\ issue.GFS_ID \in seen
        THEN << Err(row, "dup_id") >> ELSE << >>)
  \o (IF ~Truthy(issue.Title) \/ Trim(issue.Title) = ""
        THEN << Err(row, "title_required") >> ELSE << >>)
  \o (IF OutOfVocabulary(config.scopes, issue.Scope)
        THEN << Err(row, "scope_invalid") >> ELSE << >>)
  \o (IF OutOfVocabulary(config.sizes, issue.Size)
        THEN << Err(row, "size_invalid") >> ELSE << >>)
  \o (IF OutOfVocabulary(config.priorities, issue.Priority)
        THEN << Err(row, "priority_invalid") >> ELSE << >>)

\* the warnings of one row; issue is the row as it was given, titles the
\* titles of the rows before it.  No error message contains 'duplicate' in
\* lower case, so the title warning is not suppressed by the errors.
RowWarnings(issue, row, fix, titles) ==
  (IF ~Regenerates(issue, fix) THEN << >>
     ELSE IF ~TruthyTrim(issue.GFS_ID) THEN << Err(row, "id_generated") >>
     ELSE << Err(row, "id_regenerated") >>)
  \o (IF Truthy(issue.Title) /\ issue.Title \in titles
        THEN << Err(row, "dup_title") >> ELSE << >>)
  \o (IF ~TruthyTrim(issue.Milestone) THEN << Err(row, "milestone_empty") >> ELSE << >>)

SeenInPreviousRow(seen, issue) == IF Truthy(issue.GFS_ID) THEN { issue.GFS_ID } ELSE {}

\* the identities of the rows walked so far (the Set seen, lines 116-123)
Seen(seen, issue) == IF Truthy(issue.GFS_ID) THEN seen \cup { issue.GFS_ID } ELSE seen

NoFindings == [errors |-> << >>, warnings |-> << >>, issues |-> << >>]

\* the ValidationResult before the call returned, for a call under way
NoVerdict == [valid |-> FALSE, errors |-> << >>, warnings |-> << >>, issues |-> << >>]

\* issues.forEach: acc holds the findings and the rows pushed so far, uuids
\* the values the coming generateUUID calls return
RECURSIVE ValidateFrom(_, _, _, _, _, _, _)
ValidateFrom(issues, i, seen, config, fix, uuids, acc) ==
  IF i > Len(issues) THEN acc
  ELSE The({
    ValidateFrom(issues, i + 1,
                 Seen(seen, issue), config, fix,
                 IF Regenerates(issues[i], fix) THEN Tail(uuids) ELSE uuids,
                 [errors   |-> acc.errors \o RowErrors(issue, i + 1, seen, config),
                  warnings |-> acc.warnings
                                 \o RowWarnings(issues[i], i + 1, fix,
                                                { acc.issues[k].Title : k \in 1..Len(acc.issues) }),
                  issues   |-> Append(acc.issues, issue)])
    : issue \in { IF Regenerates(issues[i], fix)
                    THEN [issues[i] EXCEPT !.GFS_ID = Head(uuids)] ELSE issues[i] } })

\* the errors, the warnings and the array as the call leaves it
validateIssuesWith(issues, config, fix, uuids) ==
  The({ [valid |-> r.errors = << >>, errors |-> r.errors, warnings |-> r.warnings,
         issues |-> r.issues]
        : r \in { ValidateFrom(issues, 1, {}, config, fix, uuids, NoFindings) } })

\* validateIssues(issues, config).errors ; valid is errors.length === 0
validateIssues(issues, config) ==
  validateIssuesWith(issues, config, FALSE, << >>).errors

\* fixIssues: the copy of the array after validateIssues(fixed, config, true)
fixIssues(issues, config, uuids) == validateIssuesWith(issues, config, TRUE, uuids).issues

(***************************************************************************)
(* Tracker calls.  Every gh invocation of a command is logged as a record; *)
(* mut tells the calls that change the tracker from the reads.             *)
(***************************************************************************)
NoBody == << >>

Call(op, mut, num, title, body, milestone, labels) ==
  [op |-> op, mut |-> mut, num |-> num, title |-> title, body |-> body,
   milestone |-> milestone, labels |-> labels]

ReadCall(op) == Call(op, FALSE, 0, "", NoBody, "", {})

MutatingOps == {"issue create", "issue edit", "add-label", "milestone create",
                "field-create", "item-add", "item-edit"}

\* the tracker side of the model: issues (number = index), milestone titles,
\* the board's fields and items
World(remote, milestones, boardFields, boardItems) ==
  [remote |-> remote, milestones |-> milestones, boardFields |-> boardFields,
   boardItems |-> boardItems]

FieldNames == {"Scope", "Size", "Priority"}

\* the per-run memo of the board's item list (projectItemsCache)
NoCache == [has |-> FALSE, items |-> {}]

(***************************************************************************)
(* findIssueByGfsId: the first fetched issue whose body's identity marker  *)
(* is exactly the desired identity; 0 when there is none.                  *)
(***************************************************************************)
RECURSIVE FindFrom(_, _, _)
FindFrom(gfsId, existingIssues, i) ==
  IF i > Len(existingIssues) THEN 0
  ELSE IF extractGfsId(existingIssues[i].body) = gfsId THEN existingIssues[i].number
  ELSE FindFrom(gfsId, existingIssues, i + 1)

findIssueByGfsId(gfsId, existingIssues) == FindFrom(gfsId, existingIssues, 1)

\* fetchAllIssues: the listing of every remote issue, with its number
fetchAllIssues(remote) ==
  [n \in 1..Len(remote) |->
     [number |-> n, title |-> remote[n].title, body |-> remote[n].body,
      milestone |-> remote[n].milestone, labels |-> remote[n].labels]]

(***************************************************************************)
(* prepareMilestoneArg / listMilestones / createMilestone.                 *)
(* fail names the call of this step that the transport fails (after its    *)
(* retries), "none" for no failure.  The result: arg ("" for null), the    *)
(* calls issued, the tracker's milestones, and whether an error escaped.   *)
(***************************************************************************)
prepareMilestoneArgVerbatim(milestones, title, autoCreate, dryRun, fail) ==
  [arg |-> IF TruthyTrim(title) THEN title ELSE "", calls |-> << >>,
   milestones |-> milestones, threw |-> FALSE]

prepareMilestoneArg(milestones, title, autoCreate, dryRun, fail) ==
  IF ~TruthyTrim(title)
    THEN [arg |-> "", calls |-> << >>, milestones |-> milestones, threw |-> FALSE]
  ELSE IF fail = "listMilestones"
    THEN [arg |-> "", calls |-> << ReadCall("milestone list") >>,
          milestones |-> milestones, threw |-> TRUE]
  ELSE IF title \in milestones
    THEN [arg |-> title, calls |-> << ReadCall("milestone list") >>,
          milestones |-> milestones, threw |-> FALSE]
  ELSE IF autoCreate /\ ~dryRun
    THEN IF fail = "createMilestone"
           THEN [arg |-> "",
                 calls |-> << ReadCall("milestone list"),
                              Call("milestone create", TRUE, 0, "", NoBody, title, {}) >>,
                 milestones |-> milestones, threw |-> FALSE]
           ELSE [arg |-> title,
                 calls |-> << ReadCall("milestone list"),
                              Call("milestone create", TRUE, 0, "", NoBody, title, {}) >>,
                 milestones |-> milestones \cup {title}, threw |-> FALSE]
  ELSE [arg |-> "", calls |-> << ReadCall("milestone list") >>,
        milestones |-> milestones, threw |-> FALSE]

\* the labels of an issue under --auto-labels, as <<prefix, value>>
AutoLabelsWithPriority(issue) ==
  { <<"scope", IF Truthy(issue.Scope) THEN issue.Scope ELSE "other">>,
    <<"size",  IF Truthy(issue.Size) THEN issue.Size ELSE "M">>,
    <<"priority", issue.Priority>> }

AutoLabels(issue) ==
  { <<"scope", IF Truthy(issue.Scope) THEN issue.Scope ELSE "other">>,
    <<"size",  IF Truthy(issue.Size) THEN issue.Size ELSE "M">> }
  \cup (IF Truthy(issue.Priority) THEN { <<"priority", issue.Priority>> } ELSE {})

(***************************************************************************)
(* ensureIssueInProjectAndSetFields: locate or add the board item of the   *)
(* issue, then push one field-set call per classification field that has   *)
(* a value and a matching option.  A board item is [num, vals].            *)
(***************************************************************************)
NoVals == [Scope |-> UNDEF, Size |-> UNDEF, Priority |-> UNDEF]

ItemNums(items) == { it.num : it \in items }

\* the fields setField pushes, in call order
FieldsToSet(issue, config) ==
  LET want(f) == Truthy(issue[f]) /\ config.project.fields[f].exists
                 /\ issue[f] \in config.project.fields[f].options
  IN  (IF want("Scope") THEN << "Scope" >> ELSE << >>)
      \o (IF want("Size") THEN << "Size" >> ELSE << >>)
      \o (IF want("Priority") THEN << "Priority" >> ELSE << >>)

\* a listing that never keeps nor uses the memo
listProjectItemsUncached(boardItems, cache, refresh) ==
  [items |-> ItemNums(boardItems), calls |-> << ReadCall("item-list") >>, cache |-> NoCache]

\* listProjectItems: the memo when there is one and no refresh is asked,
\* else one item-list call whose result replaces the memo
listProjectItems(boardItems, cache, refresh) ==
  IF ~refresh /\ cache.has THEN [items |-> cache.items, calls |-> << >>, cache |-> cache]
  ELSE [items |-> ItemNums(boardItems), calls |-> << ReadCall("item-list") >>,
        cache |-> [has |-> TRUE, items |-> ItemNums(boardItems)]]

ensureIssueInProjectAndSetFields(number, issue, config, boardItems, cache) ==
  IF ~config.project.set
    THEN [calls |-> << >>, boardItems |-> boardItems, cache |-> cache]
  ELSE
    LET first   == listProjectItems(boardItems, cache, FALSE)
        calls1  == first.calls
        hit     == number \in first.items
        items2  == IF hit \/ number \in ItemNums(boardItems) THEN boardItems
                   ELSE boardItems \cup { [num |-> number, vals |-> NoVals] }
        refreshed == listProjectItems(items2, first.cache, TRUE)
        calls2  == IF hit THEN << >>
                   ELSE << Call("item-add", TRUE, number, "", NoBody, "", {}) >>
                        \o refreshed.calls
        sets    == FieldsToSet(issue, config)
        calls3  == [k \in 1..Len(sets) |->
                      Call("item-edit", TRUE, number, sets[k], NoBody, issue[sets[k]], {})]
        newVals(old) == [f \in FieldNames |->
                           IF \E k \in 1..Len(sets) : sets[k] = f THEN issue[f] ELSE old[f]]
        items3  == { IF it.num = number THEN [it EXCEPT !.vals = newVals(it.vals)] ELSE it
                     : it \in items2 }
    IN  [calls |-> calls1 \o calls2 \o calls3, boardItems |-> items3,
         cache |-> IF hit THEN first.cache ELSE refreshed.cache]

(***************************************************************************)
(* One iteration of the forEach of importIssues, for one desired issue.    *)
(* Result: the tracker after it, the calls issued, the item cache, which   *)
(* counter was incremented ("created", "updated", "skipped", or "none"     *)
(* when an error escaped) and whether an error escaped (threw).            *)
(***************************************************************************)
\* an iteration that swallows its error and counts the issue as skipped
StepResultSwallowed(w, cache, calls, counted, threw) ==
  [w |-> w, cache |-> cache, calls |-> calls,
   counted |-> IF threw THEN "skipped" ELSE counted, threw |-> FALSE]

StepResult(w, cache, calls, counted, threw) ==
  [w |-> w, cache |-> cache, calls |-> calls, counted |-> counted, threw |-> threw]

\* the create/edit + board + labels part shared by both branches, after the
\* milestone was resolved (pm); number = 0 asks for a creation
WriteIssue(w, cache, number, issue, opts, config, fail, pm, counted) ==
  LET resolved == [issue EXCEPT !.Milestone = pm.arg]
      body     == formatIssueBody(resolved)
      msArg    == IF TruthyTrim(resolved.Milestone) THEN resolved.Milestone ELSE ""
      isNew    == number = 0
      num      == IF isNew THEN Len(w.remote) + 1 ELSE number
      writeCall == Call(IF isNew THEN "issue create" ELSE "issue edit", TRUE,
                        IF isNew THEN 0 ELSE number, resolved.Title, body, msArg, {})
      w1       == [w EXCEPT !.milestones = pm.milestones]
      remote2  == IF isNew
                    THEN Append(w.remote, [title |-> resolved.Title, body |-> body,
                                           milestone |-> msArg, labels |-> {}])
                    ELSE [w.remote EXCEPT ![number] =
                            [@ EXCEPT !.title = resolved.Title, !.body = body,
                                      !.milestone = IF msArg # "" THEN msArg ELSE @]]
      labels   == AutoLabels(resolved)
      labelCall == Call("add-label", TRUE, num, "", NoBody, "", labels)
  IN  IF pm.threw THEN StepResult(w, cache, pm.calls, "none", TRUE)
      ELSE IF fail = "write"
        THEN StepResult(w1, cache, pm.calls \o << writeCall >>, "none", TRUE)
      ELSE The({
        LET w2 == [w1 EXCEPT !.remote = remote2, !.boardItems = board.boardItems]
            calls2 == pm.calls \o << writeCall >> \o board.calls
        IN  StepResult(
              IF opts.autoCreateLabels /\ fail # "labels"
                THEN [w2 EXCEPT !.remote[num].labels = @ \cup labels] ELSE w2,
              board.cache,
              IF opts.autoCreateLabels THEN calls2 \o << labelCall >> ELSE calls2,
              IF opts.autoCreateLabels /\ fail = "labels" THEN "none" ELSE counted,
              opts.autoCreateLabels /\ fail = "labels")
        : board \in { ensureIssueInProjectAndSetFields(num, resolved, config,
                                                       w.boardItems, cache) } })

\* create-only mode: an issue found remotely is left alone (line 860)
skipExistingUnlessPreview(opts) == opts.createOnly /\ ~opts.dryRun
skipExisting(opts) == opts.createOnly

\* update-only mode: an issue absent remotely is not created (line 902)
skipMissingNever(opts) == FALSE
skipMissing(opts) == opts.updateOnly

\* the stored hash equals the computed one: nothing to do (line 866)
unchangedNever(existingHash, newContentHash) == FALSE
unchanged(existingHash, newContentHash) == existingHash = newContentHash

ImportStep(w, cache, existingIssues, issue, opts, config, fail) ==
  The({
    LET newContentHash == computeContentHash(issue)
        existingHash == IF existing = 0 THEN NoHash
                        ELSE extractContentHash(existingIssues[existing].body)
        skip == IF existing # 0
                  THEN skipExisting(opts) \/ unchanged(existingHash, newContentHash)
                  ELSE skipMissing(opts)
        counted == IF skip THEN "skipped"
                   ELSE IF existing # 0 THEN "updated" ELSE "created"
    IN  IF skip \/ opts.dryRun THEN StepResult(w, cache, << >>, counted, FALSE)
        ELSE WriteIssue(w, cache, existing, issue, opts, config, fail,
                        prepareMilestoneArg(w.milestones, issue.Milestone,
                                            opts.autoCreateMilestones, opts.dryRun, fail),
                        counted)
    : existing \in { findIssueByGfsId(issue.GFS_ID, existingIssues) } })

(***************************************************************************)
(* importIssues: the optional priming of the project list, the single bulk *)
(* fetch, then the forEach.  failIdx/failKind name the issue (0: the bulk  *)
(* fetch) and the call at which the transport fails; failIdx = -1: never.  *)
(***************************************************************************)
RunResult(w, calls, created, updated, skipped, threw) ==
  [w |-> w, calls |-> calls, created |-> created, updated |-> updated,
   skipped |-> skipped, threw |-> threw]

\* counters that leave the skipped issues out
IncWritesOnly(acc, r) ==
  [acc EXCEPT !.calls = @ \o r.calls,
              !.created = @ + (IF r.counted = "created" THEN 1 ELSE 0),
              !.updated = @ + (IF r.counted = "updated" THEN 1 ELSE 0),
              !.w = r.w, !.threw = r.threw]

Inc(acc, r) ==
  [acc EXCEPT !.calls = @ \o r.calls,
              !.created = @ + (IF r.counted = "created" THEN 1 ELSE 0),
              !.updated = @ + (IF r.counted = "updated" THEN 1 ELSE 0),
              !.skipped = @ + (IF r.counted = "skipped" THEN 1 ELSE 0),
              !.w = r.w, !.threw = r.threw]

RECURSIVE RunFrom(_, _, _, _, _, _, _, _, _, _)
RunFrom(w, cache, existingIssues, issues, i, opts, config, failIdx, failKind, acc) ==
  IF i > Len(issues) THEN acc
  ELSE The({
    IF r.threw THEN Inc(acc, r)
    ELSE RunFrom(r.w, r.cache, existingIssues, issues, i + 1, opts, config,
                 failIdx, failKind, Inc(acc, r))
    : r \in { ImportStep(w, cache, existingIssues, issues[i], opts, config,
                         IF failIdx = i THEN failKind ELSE "none") } })

\* what fetchAllIssues makes of the listing call's return value: the issues
\* when it is a parsed array, no issue when execGhJson returned the raw
\* output of a listing that did not parse
existingIssuesOf(parsed, remote) == IF parsed THEN fetchAllIssues(remote) ELSE << >>

importIssues(issues, opts, config, w, primed, failIdx, failKind) ==
  LET prime == IF primed THEN << >>
               ELSE << ReadCall("project list"), ReadCall("project list") >>
      fetch == << ReadCall("issue list") >>
  IN  IF failIdx = 0 /\ failKind = "list"
        THEN RunResult(w, prime \o fetch, 0, 0, 0, TRUE)
        ELSE RunFrom(w, NoCache,
                     existingIssuesOf(~(failIdx = 0 /\ failKind = "malformed"), w.remote),
                     issues, 1, opts, config, failIdx, failKind,
                     RunResult(w, prime \o fetch, 0, 0, 0, FALSE))

(***************************************************************************)
(* ensureProjectConfiguredAsync: select a board when none is configured,   *)
(* then make sure the Scope / Size / Priority fields exist on it.          *)
(* key is the user's answer to the selection prompt.                       *)
(***************************************************************************)
Vocabulary(config, f) ==
  CASE f = "Scope" -> config.scopes
    [] f = "Size" -> config.sizes
    [] f = "Priority" -> config.priorities

FieldOrder == << "Scope", "Size", "Priority" >>

\* ensureSingleSelectField for the three fields in turn: a field-create and
\* a refreshing field-list for each missing field
RECURSIVE EnsureFields(_, _, _, _)
EnsureFields(config, boardFields, k, calls) ==
  IF k > Len(FieldOrder) THEN [boardFields |-> boardFields, calls |-> calls]
  ELSE LET f == FieldOrder[k] IN
    IF boardFields[f].exists
      THEN EnsureFields(config, boardFields, k + 1, calls)
      ELSE EnsureFields(config,
             [boardFields EXCEPT ![f] =
                [exists |-> TRUE,
                 options |-> IF Vocabulary(config, f) = {} THEN {"default"}
                             ELSE Vocabulary(config, f)]],
             k + 1,
             calls \o << Call("field-create", TRUE, 0, f, NoBody, "", {}),
                         ReadCall("field-list") >>)

ensureProjectConfiguredAsync(config, w, hasProjects, key) ==
  LET needSelect == ~config.project.set
      listCalls  == IF needSelect
                      THEN << ReadCall("project list"), ReadCall("project list") >>
                      ELSE << >>
      selected   == needSelect /\ hasProjects /\ key = "return"
      aborted    == needSelect /\ hasProjects /\ key = "ctrl-c"
      isSet      == config.project.set \/ selected
      ens        == EnsureFields(config, w.boardFields, 1, << ReadCall("field-list") >>)
  IN  IF aborted
        THEN [config |-> config, w |-> w, calls |-> listCalls, primed |-> needSelect,
              aborted |-> TRUE]
      ELSE IF ~isSet
        THEN [config |-> config, w |-> w, calls |-> listCalls, primed |-> needSelect,
              aborted |-> FALSE]
      ELSE [config |-> [config EXCEPT !.project = [set |-> TRUE, fields |-> ens.boardFields]],
            w |-> [w EXCEPT !.boardFields = ens.boardFields],
            calls |-> listCalls \o ens.calls, primed |-> needSelect, aborted |-> FALSE]

(***************************************************************************)
(* exportIssues: every remote issue with an identity marker, converted by  *)
(* githubIssueToIssue.  Array.find takes the first label with the prefix   *)
(* in the tracker's order, which the model leaves open when several match. *)
(***************************************************************************)
\* parseDescription: the body without its markers, trimmed (bodies of the
\* model hold at most one run of text)
parseDescription(body) ==
  LET texts == { i \in 1..Len(body) : body[i].kind = "text" }
  IN  IF texts = {} THEN "" ELSE Trim(body[CHOOSE i \in texts : TRUE].text)

LabelValues(labels, prefix, default) ==
  LET vs == { l[2] : l \in { x \in labels : x[1] = prefix } }
  IN  IF vs = {} THEN {default} ELSE vs

Issue(id, title, milestone, scope, size, priority, description) ==
  [GFS_ID |-> id, Title |-> title, Milestone |-> milestone, Scope |-> scope,
   Size |-> size, Priority |-> priority, Description |-> description]

\* the issues githubIssueToIssue can return for one remote issue
githubIssueToIssue(gi) ==
  { Issue(extractGfsId(gi.body), gi.title, gi.milestone, sc, sz, UNDEF,
          parseDescription(gi.body))
    : sc \in LabelValues(gi.labels, "scope", "other"),
      sz \in LabelValues(gi.labels, "size", "M") }

\* fetchTrackedIssues: the numbers of the issues with an identity marker
RECURSIVE TrackedFrom(_, _)
TrackedFrom(remote, i) ==
  IF i > Len(remote) THEN << >>
  ELSE (IF extractGfsId(remote[i].body) # NoId THEN << i >> ELSE << >>)
       \o TrackedFrom(remote, i + 1)

fetchTrackedIssues(remote) == TrackedFrom(remote, 1)

\* the issue arrays an export can return
exportIssues(remote) ==
  LET nums == fetchTrackedIssues(remote)
  IN  { ds \in [1..Len(nums) -> UNION { githubIssueToIssue(remote[nums[k]])
                                        : k \in 1..Len(nums) }] :
          \A k \in 1..Len(nums) : ds[k] \in githubIssueToIssue(remote[nums[k]]) }

\* the JSON dataset file: writeJSON wraps the array in a versioned object
\* (JSON.stringify leaves an undefined property out, which reads back as
\* undefined); readJSON takes the array of a versioned object
SCHEMA_VERSION == "1.0.0"

writeJSON(issues) == [version |-> SCHEMA_VERSION, issues |-> issues]

readJSON(data) == data.issues

(***************************************************************************)
(* The state machine: a user who edits the dataset file and runs the       *)
(* import and export commands, one at a time, against one repository.      *)
(***************************************************************************)
VARIABLES
  dataset,      \* the dataset file: a sequence of issues
  config,       \* .gim-config.json: vocabularies and the board descriptor
  tracker,      \* the remote: issues, milestones, board fields and items
  hasProjects,  \* whether the owner has a board to select
  flags,        \* the modifiers the user passes to import (all but --dry-run)
  last,         \* the command that ran last: flags, input, calls, outcome
  runs,         \* commands run so far
  edits,        \* dataset edits so far
  probe         \* one function or transport call run on its own: input, progress, output

vars == << dataset, config, tracker, hasProjects, flags, last, runs, edits, probe >>

Options(dryRun, createOnly, updateOnly, autoCreateLabels, autoCreateMilestones) ==
  [dryRun |-> dryRun, createOnly |-> createOnly, updateOnly |-> updateOnly,
   autoCreateLabels |-> autoCreateLabels, autoCreateMilestones |-> autoCreateMilestones]

AllOptions ==
  { Options(d, c, u, l, m) : d \in BOOLEAN, c \in BOOLEAN, u \in BOOLEAN,
                             l \in BOOLEAN, m \in BOOLEAN }

NoOptions == Options(FALSE, FALSE, FALSE, FALSE, FALSE)

NoResult == [created |-> 0, updated |-> 0, skipped |-> 0]

\* the record of a command: returned tells that importIssues returned a
\* summary (result); exitCode is the process's exit code; the calls after
\* the first setupCalls ones are those importIssues issued; failIdx and
\* failKind name the call the transport failed, if any
Command(cmd, opts, key, input, cfg, before, calls, returned, result, exitCode, setupCalls, failIdx, failKind) ==
  [cmd |-> cmd, opts |-> opts, key |-> key, input |-> input, config |-> cfg,
   before |-> before, calls |-> calls, returned |-> returned, result |-> result,
   exitCode |-> exitCode, setupCalls |-> setupCalls, failIdx |-> failIdx,
   failKind |-> failKind]

\* ---- the values the model draws its inputs from ----
Profiles ==
  { << UNDEF, UNDEF, UNDEF >>, << "core", "L", UNDEF >>, << "core", "L", "P1" >>,
    << "other", "M", UNDEF >> }

MilestoneInputs == { UNDEF, "", "m1" }

IssueA(p, ms) == Issue("a", "t1", ms, p[1], p[2], p[3], "d1")
IssueB == Issue("b", "t1", "m1", "core", "L", "P1", "d2")

ValidDatasets ==
  { << IssueA(p, ms) >> : p \in Profiles, ms \in MilestoneInputs }
  \cup { << IssueA(<< "core", "L", UNDEF >>, ms), IssueB >> : ms \in { "", "m1" } }

InvalidDatasets ==
  { << IssueA(<< "core", "L", UNDEF >>, "m1"), [IssueB EXCEPT !.GFS_ID = "a"] >>,
    << [IssueB EXCEPT !.Title = ""] >>,
    << [IssueB EXCEPT !.Scope = "zzz"] >>,
    << [IssueB EXCEPT !.GFS_ID = "zz"] >>,
    << IssueB, [IssueB EXCEPT !.Title = "", !.Scope = "zzz"] >> }

RemoteIssue(title, body, milestone, labels) ==
  [title |-> title, body |-> body, milestone |-> milestone, labels |-> labels]

\* issues present before the first command: one nobody tracks, one created by
\* an earlier import of "a" with other content, one whose body lost its hash
Untracked     == RemoteIssue("u", << TextSeg("d0") >>, "", {})
TrackedStale  == RemoteIssue("t0",
                   formatIssueBody(Issue("a", "t0", "", "core", "S", UNDEF, "d0")),
                   "m0", { << "scope", "core" >>, << "size", "S" >> })
TrackedNoHash == RemoteIssue("t1", << IdSeg("a"), TextSeg("d1") >>, "", {})

InitRemotes == { << >>, << Untracked, TrackedStale >>, << TrackedNoHash >> }

NoFields  == [f \in FieldNames |-> [exists |-> FALSE, options |-> {}]]

BaseConfig ==
  [scopes |-> { "core", "other" }, sizes |-> { "L", "M" }, priorities |-> {},
   project |-> [set |-> FALSE, fields |-> NoFields]]

AllFields == EnsureFields(BaseConfig, NoFields, 1, << >>).boardFields

\* board set-ups: none to select; one to select; configured without its
\* fields; configured with its fields
NoBoard == [set |-> FALSE, has |-> FALSE, fields |-> NoFields]

Boards ==
  { NoBoard,
    [set |-> FALSE, has |-> TRUE,  fields |-> NoFields],
    [set |-> TRUE,  has |-> TRUE,  fields |-> NoFields],
    [set |-> TRUE,  has |-> TRUE,  fields |-> AllFields] }

\* no function or transport call is run on its own
NoProbe == [fn |-> "none"]

NoCommand ==
  Command("none", NoOptions, "return", << >>, BaseConfig,
          World(<< >>, {}, NoFields, {}), << >>, FALSE, NoResult, 0, 0, -1, "none")

InitWith(datasets, remotes, boards, modifiers) ==
  /\ dataset \in datasets
  /\ \E b \in boards :
       /\ config = [BaseConfig EXCEPT !.project = [set |-> b.set, fields |-> b.fields]]
       /\ hasProjects = b.has
       /\ \E r \in remotes, ms \in { {}, { "m1" } } :
            tracker = World(r, ms \cup (IF r = << >> THEN {} ELSE { "m0" }), b.fields, {})
  /\ flags \in modifiers
  /\ last = NoCommand
  /\ runs = 0
  /\ edits = 0
  /\ probe = NoProbe

\* the modifier sets a user can pass; --dry-run is chosen at each invocation
Modifiers == { o \in AllOptions : ~o.dryRun }

Init == InitWith(ValidDatasets \cup InvalidDatasets, InitRemotes, { NoBoard }, Modifiers)

(***************************************************************************)
(* handleImport: read the dataset, validate, set the board up, import.     *)
(* The result is the configuration and the tracker after the command and   *)
(* the record of the command.                                              *)
(***************************************************************************)
Summary(run) ==
  IF run.threw THEN NoResult
  ELSE [created |-> run.created, updated |-> run.updated, skipped |-> run.skipped]

\* the part of handleImport after the validation gate
importAfterGate(ds, cfg, w, has, opts, key, failIdx, failKind) ==
  The({
    IF setup.aborted
      THEN [config |-> cfg, tracker |-> w,
            last |-> Command("import", opts, key, ds, cfg, w, setup.calls, FALSE,
                             NoResult, 1, Len(setup.calls), failIdx, failKind)]
    ELSE The({
      [config |-> setup.config, tracker |-> run.w,
       last |-> Command("import", opts, key, ds, cfg, w, setup.calls \o run.calls,
                        ~run.threw, Summary(run), IF run.threw THEN 1 ELSE 0,
                        Len(setup.calls), failIdx, failKind)]
      : run \in { importIssues(ds, opts, setup.config, setup.w, setup.primed,
                               failIdx, failKind) } })
    : setup \in { ensureProjectConfiguredAsync(cfg, w, has, key) } })

handleImportUnvalidated(ds, cfg, w, has, opts, key, failIdx, failKind) ==
  importAfterGate(ds, cfg, w, has, opts, key, failIdx, failKind)

handleImport(ds, cfg, w, has, opts, key, failIdx, failKind) ==
  IF validateIssues(ds, cfg) # << >>
    THEN [config |-> cfg, tracker |-> w,
          last |-> Command("import", opts, key, ds, cfg, w, << >>, FALSE, NoResult, 1,
                           0, failIdx, failKind)]
    ELSE importAfterGate(ds, cfg, w, has, opts, key, failIdx, failKind)

\* one run of the import command on the dataset file
RunImport(opts, key, failIdx, failKind) ==
  /\ runs < MaxRuns
  /\ runs' = runs + 1
  /\ \E r \in { handleImport(dataset, config, tracker, hasProjects, opts, key,
                             failIdx, failKind) } :
       /\ config' = r.config
       /\ tracker' = r.tracker
       /\ last' = r.last
  /\ UNCHANGED << dataset, hasProjects, flags, edits, probe >>

\* the keys the user can answer the board selection with, when it is shown
Keys == IF ~config.project.set /\ hasProjects THEN { "return", "ctrl-c" } ELSE { "return" }

\* the flags of one invocation: the user's modifiers, with or without --dry-run
Invocations == { [flags EXCEPT !.dryRun = d] : d \in BOOLEAN }

\* an import in which no tracker call fails
Import ==
  \E opts \in Invocations, key \in Keys : RunImport(opts, key, -1, "none")

\* an import in which the bulk fetch fails or returns output that is no
\* JSON (failIdx = 0), or one call made for the failIdx-th issue fails
\* the calls importIssues can issue for one issue under these flags: none in a
\* preview, a milestone creation only with --auto-milestones, a label call only
\* with --auto-labels
FailKindsOf(opts) ==
  IF opts.dryRun THEN {}
  ELSE { "listMilestones", "write" }
       \cup (IF opts.autoCreateMilestones THEN { "createMilestone" } ELSE {})
       \cup (IF opts.autoCreateLabels THEN { "labels" } ELSE {})

ImportFailing ==
  \E opts \in Invocations, key \in Keys :
    \/ RunImport(opts, key, 0, "list")
    \/ RunImport(opts, key, 0, "malformed")
    \/ \E failIdx \in 1..Len(dataset), failKind \in FailKindsOf(opts) :
         RunImport(opts, key, failIdx, failKind)

(***************************************************************************)
(* handleExport with --format json: the exported array is written to the   *)
(* dataset file, which the next import reads.                              *)
(***************************************************************************)
Export ==
  /\ runs < MaxRuns
  /\ runs' = runs + 1
  /\ \E issues \in exportIssues(tracker.remote) :
       /\ dataset' = readJSON(writeJSON(issues))
       /\ last' = Command("export", NoOptions, "return", dataset, config, tracker,
                          << ReadCall("issue list") >>, FALSE, NoResult, 0, 0, -1, "none")
  /\ UNCHANGED << config, tracker, hasProjects, flags, edits, probe >>

(***************************************************************************)
(* The user edits one row of the dataset file between two commands.        *)
(***************************************************************************)
EditTitle ==
  /\ edits < MaxEdits
  /\ edits' = edits + 1
  /\ \E i \in 1..Len(dataset) :
       /\ dataset[i].Title = "t1"
       /\ dataset' = [dataset EXCEPT ![i].Title = "t2"]
  /\ UNCHANGED << config, tracker, hasProjects, flags, last, runs, probe >>

EditDescription ==
  /\ edits < MaxEdits
  /\ edits' = edits + 1
  /\ \E i \in 1..Len(dataset) :
       /\ dataset[i].Description = "d1"
       /\ dataset' = [dataset EXCEPT ![i].Description = "d2"]
  /\ UNCHANGED << config, tracker, hasProjects, flags, last, runs, probe >>

Next == Import \/ Export \/ EditTitle \/ EditDescription

Spec == Init /\ [][Next]_vars

\* the same commands, with imports in which a tracker call fails
NextFaulty == Next \/ ImportFailing

InitFaulty ==
  InitWith({ << IssueA(<< "core", "L", UNDEF >>, ms), IssueB >> : ms \in { "", "m1" } }
             \cup { << IssueA(<< "core", "L", "P1" >>, "m1") >> },
           InitRemotes, { NoBoard },
           { o \in Modifiers : ~o.createOnly /\ ~o.updateOnly })

SpecFaulty == InitFaulty /\ [][NextFaulty]_vars

\* the same commands against a repository with a board to select or configured
InitBoard ==
  InitWith({ << IssueA(p, "m1") >> : p \in Profiles } \cup InvalidDatasets,
           { << >>, << Untracked, TrackedStale >> }, Boards, Modifiers)

SpecBoard == InitBoard /\ [][Next]_vars

\* the user changes the scope and size of one row between two commands
EditClassification ==
  /\ edits < MaxEdits
  /\ edits' = edits + 1
  /\ \E i \in 1..Len(dataset), p \in { << "core", "L" >>, << "other", "M" >>, << "core", "M" >> } :
       /\ << dataset[i].Scope, dataset[i].Size >> # p
       /\ dataset' = [dataset EXCEPT ![i].Scope = p[1], ![i].Size = p[2]]
  /\ UNCHANGED << config, tracker, hasProjects, flags, last, runs, probe >>

\* imports with --auto-labels into an empty repository, the classification
\* of the rows changing between the runs
InitLabels ==
  InitWith({ << IssueA(p, ms) >> : p \in Profiles, ms \in { "", "m1" } }
             \cup { << IssueA(<< "core", "L", UNDEF >>, "m1"), IssueB >> },
           { << >> }, { NoBoard },
           { o \in Modifiers : o.autoCreateLabels /\ ~o.createOnly /\ ~o.updateOnly })

NextLabels == Next \/ EditClassification

SpecLabels == InitLabels /\ [][NextLabels]_vars

\* the same commands on datasets whose identities differ in letter case
\* from one another or from the identity a remote issue is tracked under
InitIdentity ==
  InitWith({ << [IssueA(<< "core", "L", UNDEF >>, ms) EXCEPT !.GFS_ID = id] >>
               : id \in { "a", "A" }, ms \in { "", "m1" } }
             \cup { << IssueA(<< "core", "L", UNDEF >>, ""), [IssueB EXCEPT !.GFS_ID = id] >>
                      : id \in { "a", "A", "b" } },
           InitRemotes, { NoBoard }, Modifiers)

SpecIdentity == InitIdentity /\ [][Next]_vars

\* the same commands on two-issue datasets against a configured board that
\* already holds items for some of the remote issues
TrackedStaleB ==
  RemoteIssue("t0", formatIssueBody(Issue("b", "t0", "", "core", "S", UNDEF, "d0")),
              "m0", { << "scope", "core" >> })

InitItems ==
  /\ dataset \in { << IssueA(<< "core", "L", UNDEF >>, ms), IssueB >> : ms \in { "", "m1" } }
  /\ \E b \in { x \in Boards : x.set } :
       /\ config = [BaseConfig EXCEPT !.project = [set |-> b.set, fields |-> b.fields]]
       /\ hasProjects = b.has
       /\ \E r \in { << >>, << Untracked, TrackedStale >>, << TrackedStale, TrackedStaleB >> } :
            \E onBoard \in SUBSET (1..Len(r)) :
              tracker = World(r, { "m0", "m1" }, b.fields,
                              { [num |-> n, vals |-> NoVals] : n \in onBoard })
  /\ flags \in { o \in Modifiers : ~o.autoCreateMilestones }
  /\ last = NoCommand
  /\ runs = 0
  /\ edits = 0
  /\ probe = NoProbe

SpecItems == InitItems /\ [][Next]_vars

(***************************************************************************)
(* The transport: execGh, execGhInput and execGhJson run the gh subprocess *)
(* in the same retry loop and differ in what they return.  A text is a     *)
(* sequence of words; a phrase occurs in it when its words occur in a row. *)
(***************************************************************************)
maxAttempts == 3

ToLowerCase(text) ==
  [k \in 1..Len(text) |->
     CASE text[k] = "API"       -> "api"
       [] text[k] = "HTTP"      -> "http"
       [] text[k] = "Rate"      -> "rate"
       [] text[k] = "Limit"     -> "limit"
       [] text[k] = "Abuse"     -> "abuse"
       [] text[k] = "Detection" -> "detection"
       [] text[k] = "Not"       -> "not"
       [] text[k] = "Found"     -> "found"
       [] OTHER                 -> text[k]]

\* String.prototype.includes
Includes(text, phrase) ==
  \E k \in 0..(Len(text) - Len(phrase)) :
    \A j \in 1..Len(phrase) : text[k + j] = phrase[j]

isRateLimitMessage(text) ==
  LET t == ToLowerCase(text)
  IN  \/ Includes(t, << "rate", "limit" >>)
      \/ Includes(t, << "secondary", "rate", "limit" >>)
      \/ Includes(t, << "http", "429" >>)
      \/ Includes(t, << "abuse", "detection" >>)

\* what spawnSync returns: a launch error, or an exit status with the two
\* output streams; stdout is a text, or a JSON document (json) with a value
NoText == << >>

Spawned(error, launchMessage, status, stderr, stdout, json) ==
  [error |-> error, launchMessage |-> launchMessage, status |-> status,
   stderr |-> stderr, stdout |-> stdout, json |-> json]

ErrorTexts ==
  { << "API", "rate", "limit", "exceeded" >>,
    << "API", "Rate", "Limit", "exceeded" >>,
    << "exceeded", "a", "secondary", "rate", "limit" >>,
    << "HTTP", "429" >>,
    << "Abuse", "Detection", "mechanism" >>,
    << "HTTP", "404", "Not", "Found" >>,
    << "limit", "rate" >> }

SpawnResults ==
  { Spawned(TRUE, m, 0, NoText, NoText, FALSE)
      : m \in { << "spawn", "gh", "ENOENT" >>, << "HTTP", "429" >> } }
  \cup { Spawned(FALSE, NoText, 1, e, NoText, FALSE) : e \in ErrorTexts }
  \cup { Spawned(FALSE, NoText, 1, NoText, o, FALSE)
           : o \in { NoText, << "HTTP", "429" >>, << "HTTP", "404", "Not", "Found" >> } }
  \cup { Spawned(FALSE, NoText, 0, NoText, << "[]" >>, TRUE),
         Spawned(FALSE, NoText, 0, << "warning" >>, << "https://github.com/o/r/issues/1" >>, FALSE),
         Spawned(FALSE, NoText, 0, NoText, NoText, FALSE) }

Variants == { "execGh", "execGhInput", "execGhJson" }

\* lastErr after a failed attempt
ErrorText(result) ==
  IF result.error THEN << "GitHub", "CLI", "error:" >> \o result.launchMessage
  ELSE IF result.stderr # NoText THEN result.stderr ELSE result.stdout

\* what a successful attempt returns: the output, or for execGhJson the
\* parsed document when the output parses and the raw output otherwise
Returned(variant, result) ==
  IF variant = "execGhJson"
    THEN [parsed |-> result.json, value |-> result.stdout]
    ELSE [parsed |-> FALSE, value |-> result.stdout]

backoffMsFlat(attempt) == 1000

backoffMs(attempt) == 1000 * 2 ^ attempt

attemptsRemainOrLast(attempt) == attempt <= maxAttempts - 1

attemptsRemain(attempt) == attempt < maxAttempts - 1

\* the test that sends the loop to its backoff sleep
retriesAnyFailure(lastErr, attempt) == attemptsRemain(attempt)

retries(lastErr, attempt) == isRateLimitMessage(lastErr) /\ attemptsRemain(attempt)

SpawnEvent(result) == [ev |-> "spawn", result |-> result, ms |-> 0]

SleepEvent(ms) == [ev |-> "sleep", result |-> Spawned(FALSE, NoText, 0, NoText, NoText, FALSE), ms |-> ms]

NoReturn == [parsed |-> FALSE, value |-> NoText]

\* the call at its start
Started(variant) ==
  [fn |-> "gh", variant |-> variant, pc |-> "loop", attempt |-> 0, lastErr |-> NoText,
   events |-> << >>, returned |-> NoReturn]

\* one pass through the loop body up to the sleep: the subprocess runs and
\* ends with result
GhSpawn ==
  /\ probe.fn = "gh"
  /\ probe.variant \in Variants
  /\ probe.pc = "loop"
  /\ probe.attempt < maxAttempts
  /\ \E result \in SpawnResults :
       probe' =
         IF ~result.error /\ result.status = 0
           THEN [probe EXCEPT !.events = Append(@, SpawnEvent(result)),
                              !.returned = Returned(probe.variant, result),
                              !.pc = "returned"]
         ELSE [probe EXCEPT !.events = Append(@, SpawnEvent(result)),
                            !.lastErr = ErrorText(result),
                            !.pc = IF retries(ErrorText(result), probe.attempt)
                                     THEN "sleep" ELSE "threw"]
  /\ UNCHANGED << dataset, config, tracker, hasProjects, flags, last, runs, edits >>

\* the backoff sleep, attempt++ and the loop test
GhSleep ==
  /\ probe.fn = "gh"
  /\ probe.pc = "sleep"
  /\ probe' = [probe EXCEPT !.events = Append(@, SleepEvent(backoffMs(probe.attempt))),
                            !.attempt = @ + 1,
                            !.pc = IF probe.attempt + 1 < maxAttempts THEN "loop" ELSE "threw"]
  /\ UNCHANGED << dataset, config, tracker, hasProjects, flags, last, runs, edits >>

\* the state around a call run on its own
Idle ==
  /\ dataset = << >>
  /\ config = BaseConfig
  /\ tracker = World(<< >>, {}, NoFields, {})
  /\ hasProjects = FALSE
  /\ flags = NoOptions
  /\ last = NoCommand
  /\ runs = 0
  /\ edits = 0

InitTransport == Idle /\ probe \in { Started(v) : v \in Variants }

NextTransport == GhSpawn \/ GhSleep

SpecTransport == InitTransport /\ [][NextTransport]_vars

(***************************************************************************)
(* The export command's own execGh: one execSync of the gh command line.   *)
(* It returns the trimmed output, or throws with the message of the        *)
(* failed subprocess (which carries its stderr); there is no loop.         *)
(***************************************************************************)
ExecSyncMessage(result) ==
  << "GitHub", "CLI", "error:" >>
    \o (IF result.error THEN result.launchMessage
        ELSE << "Command", "failed:", "gh" >> \o result.stderr)

ExportExecGh ==
  /\ probe.fn = "gh"
  /\ probe.variant = "export.execGh"
  /\ probe.pc = "loop"
  /\ \E result \in SpawnResults :
       probe' =
         IF ~result.error /\ result.status = 0
           THEN [probe EXCEPT !.events = Append(@, SpawnEvent(result)),
                              !.returned = [parsed |-> FALSE, value |-> result.stdout],
                              !.pc = "returned"]
         ELSE [probe EXCEPT !.events = Append(@, SpawnEvent(result)),
                            !.lastErr = ExecSyncMessage(result),
                            !.pc = "threw"]
  /\ UNCHANGED << dataset, config, tracker, hasProjects, flags, last, runs, edits >>

\* every function of the program that runs the gh subprocess
InitAdapters == Idle /\ probe \in { Started(v) : v \in Variants \cup { "export.execGh" } }

NextAdapters == GhSpawn \/ GhSleep \/ ExportExecGh

SpecAdapters == InitAdapters /\ [][NextAdapters]_vars

(***************************************************************************)
(* prepareMilestoneArg run on its own, on a milestone list, a desired      *)
(* name, the two flags and the call that fails, if any.                    *)
(***************************************************************************)
MilestoneTitles == { "m0", "m1", "m2" }

DesiredMilestones == { UNDEF, "", " ", "m1", "m2" }

NoResolution == [arg |-> "", calls |-> << >>, milestones |-> {}, threw |-> FALSE]

InitMilestone ==
  /\ Idle
  /\ \E ms \in SUBSET MilestoneTitles, title \in DesiredMilestones,
        autoCreate \in BOOLEAN, dryRun \in BOOLEAN,
        fail \in { "none", "listMilestones", "createMilestone" } :
       probe = [fn |-> "prepareMilestoneArg", milestones |-> ms, title |-> title,
                autoCreate |-> autoCreate, dryRun |-> dryRun, fail |-> fail,
                done |-> FALSE, out |-> NoResolution]

ResolveMilestone ==
  /\ probe.fn = "prepareMilestoneArg"
  /\ ~probe.done
  /\ probe' = [probe EXCEPT !.done = TRUE,
                            !.out = prepareMilestoneArg(probe.milestones, probe.title,
                                                        probe.autoCreate, probe.dryRun,
                                                        probe.fail)]
  /\ UNCHANGED << dataset, config, tracker, hasProjects, flags, last, runs, edits >>

NextMilestone == ResolveMilestone

SpecMilestone == InitMilestone /\ [][NextMilestone]_vars

(***************************************************************************)
(* The marker codec run on its own: insertGfsId, then insertContentHash,   *)
(* on a body that may hold stale markers of every spelling.                *)
(***************************************************************************)
CodecIds == { "a", "b", "A" }

CodecDigests ==
  { computeContentHash(IssueA(p, "m1")) : p \in { << "core", "L", UNDEF >>, << UNDEF, UNDEF, UNDEF >> } }

CodecSegments ==
  { IdSeg("a"), IdSeg("zz"), LowerIdSeg("b"), TextSeg("d1") }
  \cup { HashSeg(h) : h \in CodecDigests }

RECURSIVE BodiesUpTo(_)
BodiesUpTo(n) ==
  IF n = 0 THEN { << >> }
  ELSE BodiesUpTo(n - 1)
         \cup { Append(b, seg) : b \in { x \in BodiesUpTo(n - 1) : Len(x) = n - 1 },
                                 seg \in CodecSegments }

\* path lists the insertions applied so far, out is the body they gave and
\* prev the body the last one was applied to
InitCodec ==
  /\ Idle
  /\ \E body \in BodiesUpTo(MaxBody), id \in CodecIds, hash \in CodecDigests :
       probe = [fn |-> "codec", body |-> body, id |-> id, hash |-> hash,
                path |-> << >>, prev |-> body, out |-> body]

\* insertGfsId, on the starting body and once more on its own result
InsertId ==
  /\ probe.fn = "codec"
  /\ probe.path \in { << >>, << "insertGfsId" >> }
  /\ probe' = [probe EXCEPT !.path = Append(@, "insertGfsId"),
                            !.prev = probe.out,
                            !.out = insertGfsId(probe.out, probe.id)]
  /\ UNCHANGED << dataset, config, tracker, hasProjects, flags, last, runs, edits >>

\* insertContentHash, on the starting body or after insertGfsId, and once
\* more on its own result
InsertHash ==
  /\ probe.fn = "codec"
  /\ probe.path \in { << >>, << "insertGfsId" >>, << "insertContentHash" >> }
  /\ probe' = [probe EXCEPT !.path = Append(@, "insertContentHash"),
                            !.prev = probe.out,
                            !.out = insertContentHash(probe.out, probe.hash)]
  /\ UNCHANGED << dataset, config, tracker, hasProjects, flags, last, runs, edits >>

NextCodec == InsertId \/ InsertHash

SpecCodec == InitCodec /\ [][NextCodec]_vars

(***************************************************************************)
(* computeContentHash run on its own, on two issues.                       *)
(***************************************************************************)
HashedIssues ==
  { Issue(id, title, ms, scope, size, priority, description) :
      id \in { "a", "b" }, title \in { "t1", "t2" }, ms \in MilestoneInputs,
      scope \in { UNDEF, "core" }, size \in { UNDEF, "L" }, priority \in { UNDEF, "P1" },
      description \in { "d1", "d2" } }

InitHash ==
  /\ Idle
  /\ \E one \in { i \in HashedIssues : i.GFS_ID = "a" /\ i.Title = "t1" },
        other \in HashedIssues :
       probe = [fn |-> "computeContentHash", one |-> one, other |-> other,
                done |-> FALSE, hashOne |-> NoHash, hashOther |-> NoHash]

HashBoth ==
  /\ probe.fn = "computeContentHash"
  /\ ~probe.done
  /\ probe' = [probe EXCEPT !.done = TRUE,
                            !.hashOne = computeContentHash(probe.one),
                            !.hashOther = computeContentHash(probe.other)]
  /\ UNCHANGED << dataset, config, tracker, hasProjects, flags, last, runs, edits >>

NextHash == HashBoth

SpecHash == InitHash /\ [][NextHash]_vars

(***************************************************************************)
(* validateIssues run on its own, with and without fix, on datasets with   *)
(* every defect and under every combination of configured vocabularies.    *)
(***************************************************************************)
ValidatedRows ==
  { Issue(id, c[1], "m1", c[2], c[3], c[4], "d1") :
      id \in { "a", "b", "", "zz" },
      c \in { << "t1", UNDEF, UNDEF, UNDEF >>, << "t1", "core", "L", "P9" >>,
              << "", "zzz", "XL", "P1" >> } }

RECURSIVE DatasetsUpTo(_)
DatasetsUpTo(n) ==
  IF n = 0 THEN { << >> }
  ELSE DatasetsUpTo(n - 1)
         \cup { Append(d, row) : d \in { x \in DatasetsUpTo(n - 1) : Len(x) = n - 1 },
                                 row \in ValidatedRows }

Vocabularies ==
  { [BaseConfig EXCEPT !.scopes = v[1], !.sizes = v[2], !.priorities = v[3]] :
      v \in { << {}, {}, {} >>, << { "core", "other" }, { "L", "M" }, { "P1" } >>,
              << { "core", "other" }, {}, {} >>, << {}, { "L", "M" }, { "P1" } >> } }

NoDraw == << >>

InitValidate ==
  /\ Idle
  /\ \E issues \in DatasetsUpTo(MaxRows), cfg \in Vocabularies, fix \in BOOLEAN :
       \E uuids \in (IF fix THEN UUIDDraws ELSE { NoDraw }) :
         probe = [fn |-> "validateIssues", issues |-> issues, config |-> cfg, fix |-> fix,
                  uuids |-> uuids, done |-> FALSE, out |-> NoVerdict]

Validate ==
  /\ probe.fn = "validateIssues"
  /\ ~probe.done
  /\ probe' = [probe EXCEPT !.done = TRUE,
                            !.out = validateIssuesWith(probe.issues, probe.config,
                                                       probe.fix, probe.uuids)]
  /\ UNCHANGED << dataset, config, tracker, hasProjects, flags, last, runs, edits >>

NextValidate == Validate

SpecValidate == InitValidate /\ [][NextValidate]_vars

(***************************************************************************)
(* migrateWithConfig.  The configuration holds, per classification field,  *)
(* the vocabulary (scopes, sizes, priorities) and the alias map            *)
(* (scopeAliases, sizeAliases, priorityAliases); an absent list or map is  *)
(* an empty one (ensureArray, ensureMap).  A map is a set of <<key, value>> *)
(* pairs with one pair per key.  The run is cut at the prompts: an action   *)
(* runs the loops up to the next prompt or to the end of the file.  The     *)
(* terminal of a run is a TTY or not (process.stdin.isTTY).                *)
(***************************************************************************)
FIELD_CONFIGS == << "Scope", "Size", "Priority" >>

HasNever(map, key) == FALSE

Has(map, key) == \E p \in map : p[1] = key

Get(map, key) == The({ p[2] : p \in { q \in map : q[1] = key } })

Put(map, key, value) == { p \in map : p[1] # key } \cup { << key, value >> }

\* list.includes(value)
ListIncludes(list, value) == \E k \in 1..Len(list) : list[k] = value

uniqPushNothing(list, value) == list

uniqPush(list, value) == IF ListIncludes(list, value) THEN list ELSE Append(list, value)

NoMaps == [f \in { "Scope", "Size", "Priority" } |-> {}]

MigrationConfig(scopes, sizes, priorities) ==
  [list |-> [Scope |-> scopes, Size |-> sizes, Priority |-> priorities],
   aliases |-> NoMaps]

\* the rows of the input file: values in and out of the vocabularies, the
\* same unknown value in several rows and in several fields
MigratedRows ==
  { Issue("a", "t1", "m1", c[1], c[2], c[3], "d1") :
      c \in { << "x1", "L", "" >>, << "x1", "x1", "x1" >>, << "core", "L", " " >>,
              << "x2", "x1", "" >> } }

RECURSIVE FilesUpTo(_)
FilesUpTo(n) ==
  IF n = 0 THEN { << >> }
  ELSE FilesUpTo(n - 1)
         \cup { Append(d, row) : d \in { x \in FilesUpTo(n - 1) : Len(x) = n - 1 },
                                 row \in MigratedRows }

\* the place after (i, f) in the two nested loops
NextPlace(m) ==
  IF m.f < Len(FIELD_CONFIGS) THEN [m EXCEPT !.f = m.f + 1]
  ELSE [m EXCEPT !.i = m.i + 1, !.f = 1]

selectOptionWithoutTTYCheck(m) == [m EXCEPT !.phase = "prompt", !.shown = @ + 1]

\* selectOption up to its first render: without a TTY it throws, and the
\* error leaves migrateWithConfig and the command
selectOption(m) ==
  IF ~m.tty THEN [m EXCEPT !.phase = "failed"]
  ELSE [m EXCEPT !.phase = "prompt", !.shown = @ + 1]

\* the loops from place (i, f) on: up to the prompt of resolveField, or to
\* the end, where the issues and the configuration are written
RECURSIVE Advance(_)
Advance(m) ==
  IF m.i > Len(m.issues)
    THEN [m EXCEPT !.phase = "done", !.output = m.issues, !.written = TRUE,
                   !.persisted = m.config, !.writes = << "issues", "config" >>]
  ELSE The({
    IF ~Truthy(value) \/ m.config.list[field] = << >> \/ ListIncludes(m.config.list[field], value)
      THEN Advance(NextPlace(m))
    ELSE IF Trim(value) = "" THEN Advance(NextPlace(m))
    ELSE IF Has(m.cache[field], value)
      THEN Advance(NextPlace([m EXCEPT !.issues[m.i][field] = Get(m.cache[field], value)]))
    ELSE selectOption(m)
    : field \in { FIELD_CONFIGS[m.f] }, value \in { m.issues[m.i][FIELD_CONFIGS[m.f]] } })

\* the options selectOption shows for the prompt the run waits at
SelectionOptions(m) ==
  { [action |-> "add", target |-> UNDEF], [action |-> "skip", target |-> UNDEF] }
  \cup { [action |-> "map", target |-> m.config.list[FIELD_CONFIGS[m.f]][k]] :
            k \in 1..Len(m.config.list[FIELD_CONFIGS[m.f]]) }

\* resolveField from the answer on, the assignment of the normalized value
\* to the issue, and the loops after it
Resolve(m, choice) ==
  The({
    Advance(NextPlace(
      [m EXCEPT !.phase = "running",
                !.config.list[field] = IF choice.action = "add" THEN uniqPush(@, value) ELSE @,
                !.config.aliases[field] =
                   IF choice.action = "map" THEN Put(@, value, choice.target) ELSE @,
                !.cache[field] =
                   Put(@, value, IF choice.action = "map" THEN choice.target ELSE value),
                !.issues[m.i][field] = IF choice.action = "map" THEN choice.target ELSE value,
                !.log = Append(@, [issue |-> m.i, field |-> field, value |-> value,
                                   action |-> choice.action, target |-> choice.target])]))
    : field \in { FIELD_CONFIGS[m.f] }, value \in { m.issues[m.i][FIELD_CONFIGS[m.f]] } })

InitMigrate ==
  /\ Idle
  /\ \E input \in FilesUpTo(MaxIssues), sizes \in { << >>, << "L" >> } :
       probe = [fn |-> "migrate", input |-> input,
                persisted |-> MigrationConfig(<< "core" >>, sizes, << "P1" >>),
                output |-> << >>, written |-> FALSE, migrations |-> 0, phase |-> "idle",
                loaded |-> MigrationConfig(<< >>, << >>, << >>),
                config |-> MigrationConfig(<< >>, << >>, << >>),
                source |-> << >>, issues |-> << >>, i |-> 1, f |-> 1, cache |-> NoMaps,
                log |-> << >>, tty |-> TRUE, shown |-> 0, writes |-> << >>]

\* a run starts, in a terminal or not: the configuration is loaded, the
\* file parsed (the input file, or the file an earlier run wrote); an empty
\* file ends the run
StartMigrate ==
  /\ probe.fn = "migrate"
  /\ probe.phase \in { "idle", "done", "aborted", "failed" }
  /\ probe.migrations < MaxMigrations
  /\ \E file \in { probe.input } \cup (IF probe.written THEN { probe.output } ELSE {}),
        tty \in BOOLEAN :
       \E m \in { [probe EXCEPT !.migrations = @ + 1, !.phase = "running",
                                !.loaded = probe.persisted, !.config = probe.persisted,
                                !.source = file, !.issues = file, !.i = 1, !.f = 1,
                                !.cache = NoMaps, !.log = << >>, !.tty = tty,
                                !.shown = 0, !.writes = << >>] } :
         probe' = IF file = << >> THEN [m EXCEPT !.phase = "done"] ELSE Advance(m)
  /\ UNCHANGED << dataset, config, tracker, hasProjects, flags, last, runs, edits >>

\* the user answers the prompt with Return on one of the options
Choose ==
  /\ probe.fn = "migrate"
  /\ probe.phase = "prompt"
  /\ \E choice \in SelectionOptions(probe) : probe' = Resolve(probe, choice)
  /\ UNCHANGED << dataset, config, tracker, hasProjects, flags, last, runs, edits >>

\* the user answers the prompt with Ctrl+C: process.exit(1), nothing written
CtrlC ==
  /\ probe.fn = "migrate"
  /\ probe.phase = "prompt"
  /\ probe' = [probe EXCEPT !.phase = "aborted"]
  /\ UNCHANGED << dataset, config, tracker, hasProjects, flags, last, runs, edits >>

NextMigrate == StartMigrate \/ Choose \/ CtrlC

SpecMigrate == InitMigrate /\ [][NextMigrate]_vars

(***************************************************************************)
(* Properties.  last is the command that ran last; between it and the      *)
(* current state only the dataset file can have been edited, so tracker    *)
(* and config are the ones the command left.                               *)
(***************************************************************************)
ImportReturned == last.cmd = "import" /\ last.returned

RealImportReturned == ImportReturned /\ ~last.opts.dryRun

\* the remote issues whose body carries the identity
NumbersOf(gfsId, remote) ==
  { n \in 1..Len(remote) : extractGfsId(remote[n].body) = gfsId }

\* the calls of the last command with this operation on this issue number
CallsOn(ops, num) ==
  { k \in 1..Len(last.calls) : last.calls[k].op \in ops /\ last.calls[k].num = num }

\* the creation calls of the last command for this identity
CreationsOf(gfsId) ==
  { k \in 1..Len(last.calls) :
      last.calls[k].op = "issue create" /\ extractGfsId(last.calls[k].body) = gfsId }

Triple(c, u, s) == [created |-> c, updated |-> u, skipped |-> s]

\* the same import run again on the state the last one left
SecondRun ==
  handleImport(last.input, config, tracker, hasProjects, last.opts, "return", -1, "none")

\* C1: a real import, run a second time on the same dataset with the same
\* flags and an untouched remote, creates nothing, updates nothing and
\* leaves the remote as it was.
C1_SecondRunIsNoOp ==
  RealImportReturned =>
    \A r \in { SecondRun } :
      /\ r.last.returned
      /\ r.last.result.created = 0
      /\ r.last.result.updated = 0
      /\ r.tracker = tracker

\* C2: the remote holds at most one tracked issue per identity.
C2_OneTrackedIssuePerIdentity ==
  \A i, j \in 1..Len(tracker.remote) :
    (extractGfsId(tracker.remote[i].body) # NoId
     /\ extractGfsId(tracker.remote[i].body) = extractGfsId(tracker.remote[j].body))
    => i = j

\* the class the contract gives a desired issue against the fetched remote
C3_Class(issue, remote) ==
  IF NumbersOf(issue.GFS_ID, remote) = {} THEN "create"
  ELSE IF \E n \in NumbersOf(issue.GFS_ID, remote) :
            /\ extractContentHash(remote[n].body) # NoHash
            /\ extractContentHash(remote[n].body) = computeContentHash(issue)
    THEN "skip"
  ELSE "update"

C3_Count(class) ==
  Cardinality({ i \in 1..Len(last.input) :
                  C3_Class(last.input[i], last.before.remote) = class })

\* C3: with neither suppression flag, each desired issue is created when
\* its identity is in no remote body, skipped when the stored hash equals
\* the computed one, updated on its existing number otherwise, and the
\* three counters count exactly these classes.
C3_Decision ==
  (ImportReturned /\ ~last.opts.createOnly /\ ~last.opts.updateOnly) =>
    /\ last.result = Triple(C3_Count("create"), C3_Count("update"), C3_Count("skip"))
    /\ ~last.opts.dryRun =>
         \A i \in 1..Len(last.input) :
           LET issue == last.input[i]
               found == NumbersOf(issue.GFS_ID, last.before.remote)
               class == C3_Class(issue, last.before.remote)
           IN  /\ Cardinality(CreationsOf(issue.GFS_ID)) = (IF class = "create" THEN 1 ELSE 0)
               /\ \A n \in found :
                    Cardinality(CallsOn({ "issue edit" }, n)) = (IF class = "update" THEN 1 ELSE 0)
               /\ class = "update" =>
                    \A n \in found : extractGfsId(tracker.remote[n].body) = issue.GFS_ID
               /\ class = "skip" =>
                    \A n \in found : tracker.remote[n] = last.before.remote[n]

\* one run that created one issue and updated another
C3_Witness ==
  /\ RealImportReturned
  /\ ~last.opts.createOnly /\ ~last.opts.updateOnly
  /\ last.result = Triple(1, 1, 0)

\* C4: in create-only mode an issue found remotely is never edited and is
\* counted as skipped; in update-only mode an issue absent remotely is
\* never created and is counted as skipped.
C4_Suppression ==
  last.cmd = "import" =>
    LET found  == { i \in 1..Len(last.input) :
                      NumbersOf(last.input[i].GFS_ID, last.before.remote) # {} }
        absent == (1..Len(last.input)) \ found
    IN  /\ last.opts.createOnly =>
             /\ \A i \in found :
                  \A n \in NumbersOf(last.input[i].GFS_ID, last.before.remote) :
                    /\ CallsOn({ "issue edit", "add-label", "item-add", "item-edit" }, n) = {}
                    /\ tracker.remote[n] = last.before.remote[n]
             /\ last.returned =>
                  last.result.updated = 0 /\ last.result.skipped >= Cardinality(found)
        /\ last.opts.updateOnly =>
             /\ \A k \in 1..Len(last.calls) : last.calls[k].op # "issue create"
             /\ Len(tracker.remote) = Len(last.before.remote)
             /\ last.returned =>
                  last.result.created = 0 /\ last.result.skipped >= Cardinality(absent)

\* a real run with both modes on, over a dataset with an issue that is
\* tracked with another hash and an issue that is absent
C4_Witness ==
  /\ RealImportReturned
  /\ last.opts.createOnly /\ last.opts.updateOnly
  /\ last.result = Triple(0, 0, 2)
  /\ \E i, j \in 1..Len(last.input) :
       /\ C3_Class(last.input[i], last.before.remote) = "update"
       /\ C3_Class(last.input[j], last.before.remote) = "create"

\* C5: an import run in preview mode issues no mutating tracker call.
C5_PreviewIsReadOnly ==
  (last.cmd = "import" /\ last.opts.dryRun) =>
    /\ \A k \in 1..Len(last.calls) :
         ~last.calls[k].mut /\ last.calls[k].op \notin MutatingOps
    /\ tracker = last.before

\* the last import with --dry-run flipped, from the state the last one started in
Counterpart ==
  handleImport(last.input, last.config, last.before, hasProjects,
               [last.opts EXCEPT !.dryRun = ~@], last.key, -1, "none")

\* C6: a preview run and a real run from the same remote state, with the
\* same dataset and flags, return the same counters.
C6_PreviewForecast ==
  ImportReturned =>
    \A r \in { Counterpart } : r.last.returned => r.last.result = last.result

\* a preview of a create-only run over a dataset with an issue to skip
\* because it exists and an issue to create
C6_Witness ==
  /\ ImportReturned
  /\ last.opts.dryRun /\ last.opts.createOnly
  /\ last.result = Triple(1, 0, 1)
  /\ Counterpart.last.returned
  /\ Counterpart.tracker # last.before

\* C7: an import of a dataset with a blocking validation error exits with
\* code 1 without having issued any tracker call.
C7_ValidationFirst ==
  (last.cmd = "import" /\ validateIssues(last.input, last.config) # << >>) =>
    /\ last.exitCode = 1
    /\ last.calls = << >>
    /\ tracker = last.before
    /\ config = last.config

\* a rejected import against a configured board that lacks its fields, so
\* that the board setup would have had calls to issue
C7_Witness ==
  /\ last.cmd = "import"
  /\ validateIssues(last.input, last.config) # << >>
  /\ last.config.project.set
  /\ ~last.before.boardFields["Scope"].exists
  /\ last.exitCode = 1

C8_Titles == { "t0", "t1", "t2" }

\* the desired issues of the last import that were tracked, before it, by a
\* body written for the same issue under some title
C8_TrackedUpToTitle ==
  { i \in 1..Len(last.input) :
      \E n \in NumbersOf(last.input[i].GFS_ID, last.before.remote), t \in C8_Titles :
        last.before.remote[n].body = formatIssueBody([last.input[i] EXCEPT !.Title = t]) }

\* C8: an issue tracked with a matching stored hash whose title alone
\* changed in the dataset is counted as skipped and gets no edit call.
C8_TitleOnlyChangeIsSkipped ==
  ImportReturned =>
    /\ \A i \in C8_TrackedUpToTitle :
         \A n \in NumbersOf(last.input[i].GFS_ID, last.before.remote) :
           /\ CallsOn({ "issue edit" }, n) = {}
           /\ tracker.remote[n] = last.before.remote[n]
    /\ last.result.skipped >= Cardinality(C8_TrackedUpToTitle)

\* a real import, without create-only, of an issue whose title differs
\* from the title of the remote issue that tracks it with the same hash
C8_Witness ==
  /\ RealImportReturned
  /\ ~last.opts.createOnly
  /\ \E i \in C8_TrackedUpToTitle :
       \E n \in NumbersOf(last.input[i].GFS_ID, last.before.remote) :
         last.before.remote[n].title # last.input[i].Title

\* C9: after an import created the one issue of its dataset, every dataset
\* an export can write re-imports, under the same flags, as one skipped
\* issue and nothing else.
C9_ExportReimportIsNoOp ==
  (RealImportReturned /\ ~last.opts.createOnly /\ ~last.opts.updateOnly
   /\ last.before.remote = << >> /\ last.result = Triple(1, 0, 0)) =>
    \A issues \in exportIssues(tracker.remote) :
      \A r \in { handleImport(readJSON(writeJSON(issues)), config, tracker,
                              hasProjects, last.opts, "return", -1, "none") } :
        /\ r.last.returned
        /\ r.last.result = Triple(0, 0, 1)
        /\ r.tracker = tracker

\* C10: a real import of one issue with no remote match returns
\* {created: 1, updated: 0, skipped: 0} and sends a body made of the
\* identity marker of the issue, the hash marker of computeContentHash of
\* the issue, and the description, in this order.
C10_ScenarioA ==
  (RealImportReturned /\ ~last.opts.updateOnly /\ Len(last.input) = 1
   /\ NumbersOf(last.input[1].GFS_ID, last.before.remote) = {}) =>
    /\ last.result = Triple(1, 0, 0)
    /\ \E k \in 1..Len(last.calls) :
         /\ last.calls[k].op = "issue create"
         /\ last.calls[k].body =
              << IdSeg(last.input[1].GFS_ID),
                 HashSeg(computeContentHash(last.input[1])),
                 TextSeg(last.input[1].Description) >>

\* the calls importIssues issued in the last command
EngineCalls == SubSeq(last.calls, last.setupCalls + 1, Len(last.calls))

EngineCallsOf(ops) == { k \in 1..Len(EngineCalls) : EngineCalls[k].op \in ops }

\* every desired issue of the last import was matched and unchanged
AllUnchanged ==
  /\ ImportReturned
  /\ Len(last.input) >= 1
  /\ \A i \in 1..Len(last.input) : C3_Class(last.input[i], last.before.remote) = "skip"

\* C11 as stated: in a run where every desired issue is matched and
\* unchanged, the single bulk issue listing is the only call of the engine.
C11_OnlyTheBulkFetch ==
  AllUnchanged => EngineCalls = << ReadCall("issue list") >>

\* C11, amended: the engine lists the remote issues exactly once per run,
\* and in a run where every desired issue is matched and unchanged its
\* only other calls are the project-list reads that prime the project
\* cache, issued when the command has not read the project list before.
C11_OneFetchAndNoCallPerSkip ==
  /\ ImportReturned => Cardinality(EngineCallsOf({ "issue list" })) = 1
  /\ AllUnchanged =>
       /\ \A k \in 1..Len(EngineCalls) :
            EngineCalls[k].op \in { "issue list", "project list" } /\ ~EngineCalls[k].mut
       /\ Cardinality(EngineCallsOf({ "project list" }))
            = (IF last.config.project.set THEN 2 ELSE 0)

\* a real run against a configured board in which the one desired issue is
\* matched and unchanged, and the engine read the project list
C11_Witness ==
  /\ AllUnchanged
  /\ ~last.opts.dryRun
  /\ last.config.project.set
  /\ EngineCallsOf({ "project list" }) # {}
  /\ last.result = Triple(0, 0, Len(last.input))

\* ---- the transport call run on its own ----
IsSpawn(e) == e.ev = "spawn"

IsSleep(e) == e.ev = "sleep"

\* the results of the attempts of the call so far, and its sleeps
Attempts == SelectSeq(probe.events, IsSpawn)

Sleeps == SelectSeq(probe.events, IsSleep)

Succeeded(result) == ~result.error /\ result.status = 0

RateLimited(result) == ~Succeeded(result) /\ isRateLimitMessage(ErrorText(result))

\* C12: a call whose subprocess fails twice with a rate-limit message and
\* succeeds at the third attempt returns that attempt's output, having
\* slept 1000 ms after the first attempt and 2000 ms after the second.
C12_ThirdAttemptSucceeds ==
  (probe.fn = "gh" /\ Len(Attempts) = 3 /\ RateLimited(Attempts[1].result)
   /\ RateLimited(Attempts[2].result) /\ Succeeded(Attempts[3].result)) =>
    /\ probe.pc = "returned"
    /\ probe.returned.value = Attempts[3].result.stdout
    /\ probe.events = << Attempts[1], SleepEvent(1000), Attempts[2], SleepEvent(2000),
                         Attempts[3] >>

C12_Witness ==
  /\ probe.fn = "gh" /\ probe.variant = "execGhInput"
  /\ Len(Attempts) = 3
  /\ RateLimited(Attempts[1].result) /\ RateLimited(Attempts[2].result)
  /\ Succeeded(Attempts[3].result)
  /\ probe.pc = "returned"

\* C13: an attempt that fails with a message without rate-limit signature
\* is the last event of the call, which raises: no sleep and no further
\* attempt follows it, whatever came before it.
C13_OtherFailureRaisesAtOnce ==
  probe.fn = "gh" =>
    \A k \in 1..Len(probe.events) :
      (IsSpawn(probe.events[k]) /\ ~Succeeded(probe.events[k].result)
       /\ ~RateLimited(probe.events[k].result)) =>
        k = Len(probe.events) /\ probe.pc = "threw"

\* a failure without rate-limit signature at the second attempt
C13_Witness ==
  /\ probe.fn = "gh"
  /\ Len(Attempts) = 2
  /\ RateLimited(Attempts[1].result)
  /\ ~Succeeded(Attempts[2].result) /\ ~RateLimited(Attempts[2].result)
  /\ probe.pc = "threw"
  /\ Len(Sleeps) = 1

\* C14: a call makes at most 3 attempts and sleeps at most twice; it ends
\* right after an attempt; when 3 attempts fail with a rate-limit message
\* it raises after sleeps of 1000 ms and 2000 ms.
C14_AtMostThreeAttempts ==
  probe.fn = "gh" =>
    /\ Len(Attempts) <= 3 /\ Len(Sleeps) <= 2
    /\ probe.pc = "loop" => Len(Attempts) < 3
    /\ probe.pc \in { "returned", "threw" } =>
         probe.events # << >> /\ IsSpawn(probe.events[Len(probe.events)])
    /\ (Len(Attempts) = 3 /\ \A k \in 1..3 : RateLimited(Attempts[k].result)) =>
         /\ probe.pc = "threw"
         /\ probe.events = << Attempts[1], SleepEvent(1000), Attempts[2],
                              SleepEvent(2000), Attempts[3] >>

C14_Witness ==
  /\ probe.fn = "gh" /\ probe.variant = "execGhJson"
  /\ Len(Attempts) = 3
  /\ \A k \in 1..3 : RateLimited(Attempts[k].result)
  /\ probe.pc = "threw"

\* C15: an import whose bulk issue listing exits successfully with output
\* that is no valid JSON is aborted: it returns no summary, exits with
\* code 1 and has changed nothing, instead of taking the remote as empty.
C15_MalformedListingAborts ==
  (last.cmd = "import" /\ last.setupCalls < Len(last.calls)
   /\ last.failIdx = 0 /\ last.failKind = "malformed") =>
    /\ ~last.returned
    /\ last.exitCode = 1
    /\ tracker = last.before

\* ---- milestone resolution run on its own ----
Resolved == probe.fn = "prepareMilestoneArg" /\ probe.done

C16_Blank == probe.title \in { UNDEF, "", " " }

C16_Creates ==
  ~C16_Blank /\ probe.title \notin probe.milestones /\ probe.autoCreate /\ ~probe.dryRun

C16_CallsOf(op) ==
  { k \in 1..Len(probe.out.calls) : probe.out.calls[k].op = op }

\* C16: an empty or blank name resolves to no milestone without a call; a
\* name in the remote list resolves to itself; an absent name resolves to
\* the created milestone's title when auto-create is on outside a preview
\* and the creation succeeds, and to no milestone otherwise.
C16_MilestoneResolution ==
  (Resolved /\ probe.fail # "listMilestones") =>
    /\ ~probe.out.threw
    /\ C16_Blank => probe.out.arg = "" /\ probe.out.calls = << >>
    /\ ~C16_Blank =>
         /\ Cardinality(C16_CallsOf("milestone list")) = 1
         /\ Cardinality(C16_CallsOf("milestone create")) = (IF C16_Creates THEN 1 ELSE 0)
         /\ \A k \in C16_CallsOf("milestone create") :
              probe.out.calls[k].milestone = probe.title
         /\ probe.out.arg =
              (IF probe.title \in probe.milestones THEN probe.title
               ELSE IF C16_Creates /\ probe.fail # "createMilestone" THEN probe.title
               ELSE "")
         /\ probe.out.milestones =
              (IF C16_Creates /\ probe.fail # "createMilestone"
                 THEN probe.milestones \cup { probe.title } ELSE probe.milestones)

\* an absent name created on the way
C16_Witness ==
  /\ Resolved
  /\ C16_Creates /\ probe.fail = "none"
  /\ probe.out.arg = probe.title
  /\ probe.title \in probe.out.milestones

\* ---- milestones and labels within an import run ----
\* the last command is a real import of a valid dataset that reached the
\* engine and in which no call failed, or only a milestone creation did
C17_RunReachesEveryIssue ==
  /\ last.cmd = "import" /\ ~last.opts.dryRun
  /\ validateIssues(last.input, last.config) = << >>
  /\ EngineCalls # << >>
  /\ last.failIdx = -1 \/ last.failKind = "createMilestone"

\* the i-th desired issue names a milestone the remote lacks, and either
\* nothing creates it or its creation fails
C17_Unresolvable(i) ==
  /\ last.input[i].Milestone \notin { UNDEF, "", " " }
  /\ last.input[i].Milestone \notin last.before.milestones
  /\ \/ ~last.opts.autoCreateMilestones
     \/ /\ last.failIdx = i /\ last.failKind = "createMilestone"
        /\ \A j \in 1..(i - 1) : last.input[j].Milestone # last.input[i].Milestone

\* the i-th desired issue is one the run creates or updates
C17_Written(i) ==
  \/ C3_Class(last.input[i], last.before.remote) = "create" /\ ~last.opts.updateOnly
  \/ C3_Class(last.input[i], last.before.remote) = "update" /\ ~last.opts.createOnly

\* the create or edit calls the engine issued for the i-th desired issue
C17_WritesOf(i) ==
  { k \in EngineCallsOf({ "issue create", "issue edit" }) :
      extractGfsId(EngineCalls[k].body) = last.input[i].GFS_ID }

C18_MilestonesListedOnce ==
  last.cmd = "import" => Cardinality(EngineCallsOf({ "milestone list" })) <= 1

\* the create and edit calls of the engine
C19_Writes == EngineCallsOf({ "issue create", "issue edit" })

\* the remote number the k-th engine call, a create or an edit, writes: the
\* edited number, or the next free number at the creation
C19_NumberOf(k) ==
  IF EngineCalls[k].op = "issue edit" THEN EngineCalls[k].num
  ELSE Len(last.before.remote)
         + Cardinality({ c \in EngineCallsOf({ "issue create" }) : c <= k })

\* the desired issues the k-th engine call writes
C19_IssuesOf(k) ==
  { i \in 1..Len(last.input) : last.input[i].GFS_ID = extractGfsId(EngineCalls[k].body) }

\* scope:<Scope> and size:<Size> as they stand, priority:<Priority> if set
C19_AsIs(issue) ==
  { <<"scope", issue.Scope>>, <<"size", issue.Size>> }
  \cup (IF issue.Priority \in { UNDEF, "" } THEN {} ELSE { <<"priority", issue.Priority>> })

\* the same with an unset scope labelled other and an unset size labelled M
C19_Defaulted(issue) ==
  { <<"scope", IF issue.Scope \in { UNDEF, "" } THEN "other" ELSE issue.Scope>>,
    <<"size", IF issue.Size \in { UNDEF, "" } THEN "M" ELSE issue.Size>> }
  \cup (IF issue.Priority \in { UNDEF, "" } THEN {} ELSE { <<"priority", issue.Priority>> })

\* a real run with auto-labels issued, for each create or edit call,
\* exactly one label-add call on the number written, after that call and
\* before the next create or edit, with the labels Expected gives for the
\* issue, and no other label-add call
C19_OneLabelCall(Expected(_)) ==
  (RealImportReturned /\ last.opts.autoCreateLabels) =>
    /\ \A k \in C19_Writes :
         /\ Cardinality(C19_IssuesOf(k)) = 1
         /\ Cardinality({ m \in EngineCallsOf({ "add-label" }) :
                            EngineCalls[m].num = C19_NumberOf(k) }) = 1
         /\ \A m \in EngineCallsOf({ "add-label" }) :
              EngineCalls[m].num = C19_NumberOf(k) =>
                /\ k < m
                /\ \A k2 \in C19_Writes : k2 > k => m < k2
                /\ \A i \in C19_IssuesOf(k) : EngineCalls[m].labels = Expected(last.input[i])
    /\ Cardinality(EngineCallsOf({ "add-label" })) = Cardinality(C19_Writes)
    /\ \A i \in 1..Len(last.input) :
         (last.failIdx = -1 /\ C17_Written(i)) => \E k \in C19_Writes : i \in C19_IssuesOf(k)

\* C19 as stated: the labels are scope:<Scope> and size:<Size> with the
\* issue's values as they are, plus priority:<Priority> iff it is set.
C19_LabelsAsIs == C19_OneLabelCall(C19_AsIs)

\* C19, amended: one label-add call per created or updated issue, after its
\* create or edit and on the same number, with scope:<Scope> (scope:other
\* when the scope is unset), size:<Size> (size:M when the size is unset)
\* and priority:<Priority> iff the priority is set.
C19_LabelsWithDefaults == C19_OneLabelCall(C19_Defaulted)

\* an issue without scope, size and priority was created and labelled
C19_Witness ==
  /\ RealImportReturned /\ last.opts.autoCreateLabels
  /\ \E k \in C19_Writes, m \in EngineCallsOf({ "add-label" }), i \in 1..Len(last.input) :
       /\ i \in C19_IssuesOf(k)
       /\ last.input[i].Scope = UNDEF /\ last.input[i].Size = UNDEF
       /\ EngineCalls[k].op = "issue create"
       /\ k < m
       /\ EngineCalls[m].num = C19_NumberOf(k)
       /\ EngineCalls[m].labels = { <<"scope", "other">>, <<"size", "M">> }
       /\ tracker.remote[C19_NumberOf(k)].labels = EngineCalls[m].labels

\* ---- the marker codec run on its own ----
\* C20: the identity read back from a body the identity was inserted into
\* is that identity, and the hash read back after the hash was inserted
\* into that body is that hash, whatever stale markers the body held.
C20_RoundTrip ==
  /\ (probe.fn = "codec" /\ probe.path = << "insertGfsId" >>) =>
       extractGfsId(probe.out) = probe.id
  /\ (probe.fn = "codec" /\ probe.path = << "insertGfsId", "insertContentHash" >>) =>
       extractContentHash(probe.out) = probe.hash

\* both insertions done on a body that held a stale identity marker and a
\* stale hash marker other than the new ones
C20_Witness ==
  /\ probe.fn = "codec" /\ probe.path = << "insertGfsId", "insertContentHash" >>
  /\ extractGfsId(probe.body) \notin { NoId, probe.id }
  /\ extractContentHash(probe.body) \notin { NoHash, probe.hash }
  /\ extractGfsId(probe.out) = probe.id
  /\ extractContentHash(probe.out) = probe.hash

\* the markers of a body the extraction patterns recognise
C21_Markers(body, kind) == { i \in 1..Len(body) : Matches(body[i], kind) }

\* C21: insertGfsId applied twice with the same token gives a body with
\* exactly one identity marker, whatever markers the starting body held.
C21_OneIdentityMarker ==
  (probe.fn = "codec" /\ probe.path = << "insertGfsId", "insertGfsId" >>) =>
    Cardinality(C21_Markers(probe.out, "id")) = 1

\* C22: insertContentHash puts the hash marker right after the identity
\* marker when the body has one and on top otherwise, and applying it a
\* second time with the same digest gives the same body, which holds
\* exactly one hash marker.
C22_HashPlacedAndIdempotent ==
  /\ (probe.fn = "codec" /\ probe.path = << "insertContentHash" >>) =>
       IF C21_Markers(probe.prev, "id") # {}
         THEN \E i \in C21_Markers(probe.out, "id") :
                i < Len(probe.out) /\ probe.out[i + 1] = HashSeg(probe.hash)
         ELSE probe.out[1] = HashSeg(probe.hash)
  /\ (probe.fn = "codec" /\ probe.path = << "insertContentHash", "insertContentHash" >>) =>
       /\ probe.out = probe.prev
       /\ Cardinality(C21_Markers(probe.out, "hash")) = 1

\* ---- the content hash run on its own ----
C23_Tuple(issue) ==
  [description |-> issue.Description, scope |-> issue.Scope, size |-> issue.Size,
   priority |-> issue.Priority, milestone |-> issue.Milestone]

Validated == probe.fn = "validateIssues" /\ probe.done

C24_Errors == { probe.out.errors[k] : k \in 1..Len(probe.out.errors) }

\* the defects of the i-th row of the dataset as it was given
C24_NoTitle(i) == probe.issues[i].Title \in { UNDEF, "", " " }

C24_BadScope(i) ==
  /\ probe.config.scopes # {}
  /\ probe.issues[i].Scope \notin { UNDEF, "" }
  /\ probe.issues[i].Scope \notin probe.config.scopes

\* the identity of the i-th row is a valid one that an earlier row has too
C24_Repeated(i) ==
  /\ isValidUUID(probe.issues[i].GFS_ID)
  /\ \E j \in 1..(i - 1) : probe.issues[j].GFS_ID = probe.issues[i].GFS_ID

\* C24: one call reports every defect of every row: each row without a
\* title, with a scope outside the vocabulary or with an identity an
\* earlier row has gets its own error entry, so that a dataset with these
\* three defects has at least three distinct entries, and valid is true
\* exactly when there is no error entry.
C24_NoShortCircuit ==
  Validated =>
    /\ \A i \in 1..Len(probe.issues) :
         /\ C24_NoTitle(i) => Err(i + 1, "title_required") \in C24_Errors
         /\ C24_BadScope(i) => Err(i + 1, "scope_invalid") \in C24_Errors
         /\ C24_Repeated(i) => Err(i + 1, "dup_id") \in C24_Errors
    /\ ((\E i \in 1..Len(probe.issues) : C24_NoTitle(i))
        /\ (\E i \in 1..Len(probe.issues) : C24_BadScope(i))
        /\ (\E i \in 1..Len(probe.issues) : C24_Repeated(i)))
         => Cardinality(C24_Errors) >= 3
    /\ probe.out.valid <=> probe.out.errors = << >>

\* the three defects in one row, after a row with another defect
C24_Witness ==
  /\ Validated /\ ~probe.fix
  /\ Len(probe.issues) = 3
  /\ C24_NoTitle(3) /\ C24_BadScope(3) /\ C24_Repeated(3)
  /\ probe.issues[1].GFS_ID = "zz"
  /\ { Err(2, "id_invalid"), Err(4, "dup_id"), Err(4, "title_required"),
       Err(4, "scope_invalid") } \subseteq C24_Errors
  /\ ~probe.out.valid

C25_DuplicateErrors ==
  { k \in 1..Len(probe.out.errors) : probe.out.errors[k].kind = "dup_id" }

\* the identity of the i-th row is one the call leaves in place: a valid
\* one, or any non-empty one when fix is off
C25_Kept(i) ==
  \/ isValidUUID(probe.issues[i].GFS_ID)
  \/ ~probe.fix /\ probe.issues[i].GFS_ID \notin { UNDEF, "" }

\* the rows whose identity an earlier row carries too
C25_LaterOccurrences ==
  { i \in 1..Len(probe.issues) :
      C25_Kept(i) /\ \E j \in 1..(i - 1) : probe.issues[j].GFS_ID = probe.issues[i].GFS_ID }

\* C25: the duplicate-identity errors are one for each row whose identity
\* an earlier row carries, attributed to that row, and none for a first
\* occurrence: k rows sharing one identity yield k-1 of them.
C25_OneErrorPerLaterOccurrence ==
  Validated =>
    /\ { probe.out.errors[k].row : k \in C25_DuplicateErrors }
         = { i + 1 : i \in C25_LaterOccurrences }
    /\ Cardinality(C25_DuplicateErrors) = Cardinality(C25_LaterOccurrences)

\* three rows with one identity: two errors, on the second and the third
\* occurrence
C25_Witness ==
  /\ Validated /\ ~probe.fix
  /\ Len(probe.issues) = 3
  /\ \A i \in 1..3 : probe.issues[i].GFS_ID = "a"
  /\ Cardinality(C25_DuplicateErrors) = 2
  /\ { probe.out.errors[k].row : k \in C25_DuplicateErrors } = { 3, 4 }

\* the identity of the i-th row as it was given is missing or malformed
C26_BadIdentity(i) ==
  probe.issues[i].GFS_ID \in { UNDEF, "", " " } \/ ~isValidUUID(probe.issues[i].GFS_ID)

C26_Findings(seq, i) == { seq[k].kind : k \in { n \in 1..Len(seq) : seq[n].row = i + 1 } }

\* C26: with fix, a missing or malformed identity is replaced in place by a
\* fresh valid UUID and the finding is a warning, no error; the call never
\* changes another field of an issue, and without fix it changes nothing.
C26_AutofixTouchesIdentityOnly ==
  Validated =>
    /\ Len(probe.out.issues) = Len(probe.issues)
    /\ \A i \in 1..Len(probe.issues) :
         /\ [probe.out.issues[i] EXCEPT !.GFS_ID = UNDEF]
              = [probe.issues[i] EXCEPT !.GFS_ID = UNDEF]
         /\ (probe.fix /\ C26_BadIdentity(i)) =>
              /\ isValidUUID(probe.out.issues[i].GFS_ID)
              /\ \A j \in 1..Len(probe.issues) :
                   /\ probe.issues[j].GFS_ID # probe.out.issues[i].GFS_ID
                   /\ j # i => probe.out.issues[j].GFS_ID # probe.out.issues[i].GFS_ID
              /\ C26_Findings(probe.out.warnings, i)
                   \cap { "id_generated", "id_regenerated" } # {}
              /\ C26_Findings(probe.out.errors, i)
                   \cap { "id_required", "id_invalid", "dup_id" } = {}
         /\ (probe.fix /\ ~C26_BadIdentity(i)) =>
              probe.out.issues[i].GFS_ID = probe.issues[i].GFS_ID
    /\ ~probe.fix => probe.out.issues = probe.issues

\* a missing and a malformed identity replaced by two fresh ones in a
\* dataset that is valid afterwards
C26_Witness ==
  /\ Validated /\ probe.fix
  /\ Len(probe.issues) = 2
  /\ probe.issues[1].GFS_ID = "" /\ probe.issues[2].GFS_ID = "zz"
  /\ probe.out.issues[1].GFS_ID \in GeneratedUUIDs
  /\ probe.out.issues[2].GFS_ID \in GeneratedUUIDs \ { probe.out.issues[1].GFS_ID }
  /\ "id_generated" \in C26_Findings(probe.out.warnings, 1)
  /\ "id_regenerated" \in C26_Findings(probe.out.warnings, 2)
  /\ probe.out.valid

\* the vocabulary of a classification field, its value in the i-th row and
\* the error of the field
C27_Fields == { "Scope", "Size", "Priority" }

C27_Vocabulary(f) ==
  CASE f = "Scope" -> probe.config.scopes
    [] f = "Size" -> probe.config.sizes
    [] f = "Priority" -> probe.config.priorities

C27_Error(f) ==
  CASE f = "Scope" -> "scope_invalid"
    [] f = "Size" -> "size_invalid"
    [] f = "Priority" -> "priority_invalid"

\* C27: for scope, size and priority alike, a row has a blocking error for
\* the field exactly when the field's vocabulary is non-empty, the row has a
\* value for the field and the value is not in the vocabulary.
C27_VocabularyChecks ==
  Validated =>
    \A i \in 1..Len(probe.issues), f \in C27_Fields :
      (Err(i + 1, C27_Error(f)) \in C24_Errors)
        <=> /\ C27_Vocabulary(f) # {}
            /\ probe.issues[i][f] \notin { UNDEF, "" }
            /\ probe.issues[i][f] \notin C27_Vocabulary(f)

\* a row with an unknown scope and an unknown size, with a scope vocabulary
\* and no size vocabulary: the scope is reported, the size is accepted
C27_Witness ==
  /\ Validated
  /\ Len(probe.issues) >= 1
  /\ probe.issues[1].Scope = "zzz" /\ probe.issues[1].Size = "XL"
  /\ probe.config.scopes # {} /\ probe.config.sizes = {}
  /\ Err(2, "scope_invalid") \in C24_Errors
  /\ Err(2, "size_invalid") \notin C24_Errors
  /\ ~probe.out.valid

\* ---- the migration ----
Migrating == probe.fn = "migrate" /\ probe.phase \in { "prompt", "done", "aborted", "failed" }

C28_FieldIndex(field) == CHOOSE k \in 1..Len(FIELD_CONFIGS) : FIELD_CONFIGS[k] = field

\* the loops of the run are past the field of the j-th issue
C28_Past(j, field) ==
  j < probe.i \/ (j = probe.i /\ C28_FieldIndex(field) < probe.f)

C28_Resolution(e) == IF e.action = "map" THEN e.target ELSE e.value

\* C28: in one migration run no two prompts are about the same value of
\* the same field, and every issue after the prompted one that carries the
\* value in that field has the resolution the prompt gave.
C28_OnePromptPerValue ==
  Migrating =>
    /\ \A k, n \in 1..Len(probe.log) :
         (probe.log[k].field = probe.log[n].field /\ probe.log[k].value = probe.log[n].value)
           => k = n
    /\ \A k \in 1..Len(probe.log) :
         \A j \in probe.log[k].issue..Len(probe.source) :
           (C28_Past(j, probe.log[k].field)
            /\ probe.source[j][probe.log[k].field] = probe.log[k].value)
             => probe.issues[j][probe.log[k].field] = C28_Resolution(probe.log[k])

\* two issues with the same unknown scope: one prompt, answered with a
\* mapping, and both issues carry the target
C28_Witness ==
  /\ probe.fn = "migrate" /\ probe.phase = "done"
  /\ Len(probe.source) = 2
  /\ probe.source[1].Scope = "x1" /\ probe.source[2].Scope = "x1"
  /\ Cardinality({ k \in 1..Len(probe.log) : probe.log[k].field = "Scope" }) = 1
  /\ \E k \in 1..Len(probe.log) :
       /\ probe.log[k].field = "Scope" /\ probe.log[k].action = "map"
       /\ probe.log[k].issue = 1
       /\ probe.output[1].Scope = probe.log[k].target
       /\ probe.output[2].Scope = probe.log[k].target

\* the field and the value the prompt of the current state is about
C29_Field == FIELD_CONFIGS[probe.f]

C29_Value == probe.issues[probe.i][C29_Field]

C29_IsPrefix(short, long) ==
  Len(short) <= Len(long) /\ SubSeq(long, 1, Len(short)) = short

\* the effect of the answer given in this step, e being its log entry
C29_Effect(e) ==
  /\ e.field = C29_Field /\ e.value = C29_Value /\ e.issue = probe.i
  /\ \A g \in { "Scope", "Size", "Priority" } \ { C29_Field } :
       /\ probe'.config.list[g] = probe.config.list[g]
       /\ probe'.config.aliases[g] = probe.config.aliases[g]
  /\ e.action = "add" =>
       /\ probe'.config.list[C29_Field] = Append(probe.config.list[C29_Field], C29_Value)
       /\ Cardinality({ k \in 1..Len(probe'.config.list[C29_Field]) :
                          probe'.config.list[C29_Field][k] = C29_Value }) = 1
       /\ probe'.issues[probe.i][C29_Field] = C29_Value
       /\ probe'.config.aliases = probe.config.aliases
  /\ e.action = "map" =>
       /\ \E k \in 1..Len(probe.config.list[C29_Field]) :
            probe.config.list[C29_Field][k] = e.target
       /\ probe'.issues[probe.i][C29_Field] = e.target
       /\ << C29_Value, e.target >> \in probe'.config.aliases[C29_Field]
       /\ \A p \in probe'.config.aliases[C29_Field] :
            p[1] = C29_Value => p[2] = e.target
       /\ { p \in probe'.config.aliases[C29_Field] : p[1] # C29_Value }
            = { p \in probe.config.aliases[C29_Field] : p[1] # C29_Value }
       /\ probe'.config.list = probe.config.list
  /\ e.action = "skip" =>
       /\ probe'.issues[probe.i][C29_Field] = C29_Value
       /\ probe'.config = probe.config
  /\ e.action \in { "add", "map", "skip" }

\* C29: an answer to a prompt has the effect of its choice and no other:
\* add appends the value to the field's vocabulary, once, and leaves the
\* issue and the aliases; map sets the issue's value to the chosen entry of
\* the vocabulary and records the alias, leaving the vocabulary; skip
\* leaves all three.  The other fields' vocabularies and aliases are
\* untouched, and no vocabulary, in memory or persisted, ever loses an entry.
C29_ChoiceEffects ==
  [][ probe.fn = "migrate" =>
        /\ (probe.phase = "prompt" /\ Len(probe'.log) = Len(probe.log) + 1) =>
             C29_Effect(probe'.log[Len(probe'.log)])
        /\ \A g \in { "Scope", "Size", "Priority" } :
             /\ C29_IsPrefix(probe.persisted.list[g], probe'.persisted.list[g])
             /\ probe.phase = "prompt" =>
                  C29_IsPrefix(probe.config.list[g], probe'.config.list[g]) ]_vars

\* a finished run in which one value was added, one mapped and one skipped
C29_Witness ==
  /\ probe.fn = "migrate" /\ probe.phase = "done" /\ probe.written
  /\ { probe.log[k].action : k \in 1..Len(probe.log) } = { "add", "map", "skip" }
  /\ \E k \in 1..Len(probe.log) :
       /\ probe.log[k].action = "add"
       /\ ListIncludes(probe.persisted.list[probe.log[k].field], probe.log[k].value)
  /\ \E k \in 1..Len(probe.log) :
       /\ probe.log[k].action = "map"
       /\ << probe.log[k].value, probe.log[k].target >>
            \in probe.persisted.aliases[probe.log[k].field]

\* C30: in a run that loaded a configuration holding an alias for a value
\* of a field, recorded by a mapping in an earlier run, the user is not
\* prompted about that value and the issues carrying it get the alias
\* target.
C30_AliasAppliedWithoutPrompt ==
  Migrating =>
    \A g \in { "Scope", "Size", "Priority" } :
      \A p \in probe.loaded.aliases[g] :
        /\ \A k \in 1..Len(probe.log) :
             ~(probe.log[k].field = g /\ probe.log[k].value = p[1])
        /\ \A j \in 1..Len(probe.source) :
             (C28_Past(j, g) /\ probe.source[j][g] = p[1]) => probe.issues[j][g] = p[2]

(***************************************************************************)
(* C31.  The migration writes the normalized dataset and the configuration *)
(* only as its last step, after every prompt has been resolved: while a    *)
(* prompt is open, and after a run that ended early (no TTY, or Ctrl+C at  *)
(* a prompt), the run has written nothing, so the output file and the      *)
(* configuration file are those of before the run; a run without a TTY     *)
(* displays no prompt at all; a run that reaches its end has written both  *)
(* files, the dataset first.                                               *)
(***************************************************************************)
C31_EndedEarly == probe.phase \in { "aborted", "failed" }

C31_WritesAreTheLastStep ==
  Migrating =>
    /\ (probe.phase = "prompt" \/ C31_EndedEarly) =>
          /\ probe.writes = << >>
          /\ probe.persisted = probe.loaded
          /\ probe.written => probe.migrations > 1
    /\ ~probe.tty => probe.shown = 0 /\ probe.log = << >> /\ probe.phase # "aborted"
    /\ probe.phase = "failed" => ~probe.tty
    /\ (probe.phase = "done" /\ probe.source # << >>) =>
          /\ probe.writes = << "issues", "config" >>
          /\ probe.output = probe.issues /\ probe.persisted = probe.config

\* a first run in a terminal was interrupted after an answered prompt that
\* changed the configuration in memory
C31_Witness ==
  /\ Migrating /\ probe.phase = "aborted" /\ probe.log # << >>
  /\ probe.config # probe.loaded /\ probe.migrations = 1 /\ ~probe.written

\* a first run without a TTY failed at its first unknown value
C31_WitnessNoTerminal ==
  Migrating /\ probe.phase = "failed" /\ probe.migrations = 1 /\ ~probe.written

(***************************************************************************)
(* C32.  In a real run, when the create, edit or label-add call made for   *)
(* the k-th desired issue fails, importIssues raises: the command returns  *)
(* no summary and exits with 1; the failing call is the last call of the   *)
(* run (nothing is rolled back), no create or edit call was issued for an  *)
(* issue after the k-th, and the remote issues written for the issues      *)
(* before the k-th are as a faultless run over those issues leaves them.   *)
(***************************************************************************)
\* the k-th desired issue is due for a write: absent from the listing, or
\* listed with another stored hash
C32_Due(k) ==
  \A n \in { findIssueByGfsId(last.input[k].GFS_ID, fetchAllIssues(last.before.remote)) } :
    \/ n = 0
    \/ extractContentHash(last.before.remote[n].body) # computeContentHash(last.input[k])

\* the last command is a real import in which the create or edit call
\* (or, with auto-labels, the label-add call) of the k-th issue failed
C32_FailedAt(k) ==
  /\ last.cmd = "import" /\ ~last.opts.dryRun
  /\ validateIssues(last.input, last.config) = << >>
  /\ last.failIdx = k /\ k \in 1..Len(last.input)
  /\ last.failKind \in { "write", "labels" }
  /\ last.failKind = "labels" => last.opts.autoCreateLabels
  /\ C32_Due(k)

\* a faultless run of the same command over the issues before the k-th
C32_Before(k) ==
  handleImport(SubSeq(last.input, 1, k - 1), last.config, last.before, hasProjects,
               last.opts, last.key, -1, "none")

C32_WritesOf(i) ==
  { c \in EngineCallsOf({ "issue create", "issue edit" }) :
      extractGfsId(EngineCalls[c].body) = last.input[i].GFS_ID }

C32_FailureAbortsTheRun ==
  \A k \in 1..Len(last.input) :
    C32_FailedAt(k) =>
      /\ ~last.returned /\ last.exitCode = 1 /\ last.result = NoResult
      /\ EngineCalls # << >>
      /\ \A c \in { EngineCalls[Len(EngineCalls)] } :
           IF last.failKind = "write"
             THEN /\ c.op \in { "issue create", "issue edit" }
                  /\ extractGfsId(c.body) = last.input[k].GFS_ID
             ELSE /\ c.op = "add-label"
                  /\ C32_WritesOf(k) # {}
                  /\ NumbersOf(last.input[k].GFS_ID, tracker.remote) # {}
      /\ \A j \in (k + 1)..Len(last.input) : C32_WritesOf(j) = {}
      /\ \A prefix \in { C32_Before(k).tracker.remote } :
           /\ Len(tracker.remote) >= Len(prefix)
           /\ \A j \in 1..(k - 1) :
                /\ NumbersOf(last.input[j].GFS_ID, prefix) # {}
                /\ \A n \in NumbersOf(last.input[j].GFS_ID, prefix) :
                     tracker.remote[n] = prefix[n]

\* the write of the second issue failed after the first one was written:
\* the first issue's write is on the remote
C32_Witness ==
  /\ C32_FailedAt(2)
  /\ last.failKind = "write"
  /\ C32_WritesOf(1) # {}
  /\ tracker.remote # last.before.remote
  /\ ~last.returned

\* the write of the first of two issues failed, the second being due too
C32_WitnessLaterIssue ==
  /\ C32_FailedAt(1) /\ Len(last.input) = 2 /\ C32_Due(2)
  /\ C32_WritesOf(2) = {}

(***************************************************************************)
(* C33.  Within one import run against a configured board the item list    *)
(* is memoized with one-shot invalidation: an item-list call is either the *)
(* first board call of the run or the call right after an item-add; every  *)
(* item-add is followed at once by one item-list; so the run lists the     *)
(* items once plus once per item-add, however many issues it looks up; and *)
(* no two item-add calls of a run name the same issue.                     *)
(***************************************************************************)
C33_Lists == EngineCallsOf({ "item-list" })

C33_Adds == EngineCallsOf({ "item-add" })

\* the issues the run looked up on the board: those it created or edited
C33_Lookups == EngineCallsOf({ "issue create", "issue edit" })

C33_BoardRun == last.cmd = "import" /\ last.config.project.set /\ last.returned

C34_Spawns == { k \in 1..Len(probe.events) : probe.events[k].ev = "spawn" }

C34_Sleeps == { k \in 1..Len(probe.events) : probe.events[k].ev = "sleep" }

C34_EveryCallRetries ==
  (probe.fn = "gh" /\ probe.pc = "threw" /\ isRateLimitMessage(probe.lastErr)) =>
    /\ Cardinality(C34_Spawns) = maxAttempts
    /\ Cardinality(C34_Sleeps) >= maxAttempts - 1

\* the same for the calls of the import command only
C34_ImportCallsRetry ==
  probe.variant \in Variants => C34_EveryCallRetries

\* an import call gave up after three rate-limited attempts
C34_ImportWitness ==
  /\ probe.fn = "gh" /\ probe.variant \in Variants /\ probe.pc = "threw"
  /\ isRateLimitMessage(probe.lastErr) /\ Cardinality(C34_Spawns) = maxAttempts

(***************************************************************************)
(* C35.  After a real import that returned, the hash marker of every body  *)
(* the run sent in a create or edit call is the content hash of the        *)
(* desired issue as the dataset declares it, which is the hash the run     *)
(* compared when it classified the issue.                                  *)
(***************************************************************************)
C35_Writes == EngineCallsOf({ "issue create", "issue edit" })

C35_IssuesOf(k) ==
  { i \in 1..Len(last.input) : last.input[i].GFS_ID = extractGfsId(EngineCalls[k].body) }

C35_StoredHashIsTheComparedHash ==
  RealImportReturned =>
    \A k \in C35_Writes :
      \A i \in C35_IssuesOf(k) :
        extractContentHash(EngineCalls[k].body) = computeContentHash(last.input[i])

\* the same for the issues whose declared milestone is the one sent
C35_StoredHashOfResolvedIssues ==
  RealImportReturned =>
    \A k \in C35_Writes :
      \A i \in C35_IssuesOf(k) :
        last.input[i].Milestone = EngineCalls[k].milestone =>
          extractContentHash(EngineCalls[k].body) = computeContentHash(last.input[i])

C35_ResolvedWitness ==
  /\ RealImportReturned
  /\ \E k \in C35_Writes : \E i \in C35_IssuesOf(k) :
       last.input[i].Milestone = "m1" /\ EngineCalls[k].milestone = "m1"

(***************************************************************************)
(* C36.  Whenever importIssues returns, created + updated + skipped is the *)
(* number of desired issues, whatever the preview, create-only and         *)
(* update-only flags; with create-only and update-only both set nothing    *)
(* is created or updated and every issue is skipped.                       *)
(***************************************************************************)
C36_CountersAddUp ==
  ImportReturned =>
    /\ last.result.created + last.result.updated + last.result.skipped = Len(last.input)
    /\ (last.opts.createOnly /\ last.opts.updateOnly) =>
         /\ last.result.created = 0 /\ last.result.updated = 0
         /\ last.result.skipped = Len(last.input)
         /\ \A k \in 1..Len(EngineCalls) : ~EngineCalls[k].mut

\* a real run with both flags over two issues, one tracked with another
\* hash and one absent from the repository, skipped both
C36_Witness ==
  /\ RealImportReturned
  /\ last.opts.createOnly /\ last.opts.updateOnly
  /\ Len(last.input) = 2
  /\ NumbersOf(last.input[1].GFS_ID, last.before.remote) # {}
  /\ NumbersOf(last.input[2].GFS_ID, last.before.remote) = {}
  /\ last.result = Triple(0, 0, 2)

(***************************************************************************)
(* C37.  After a real auto-label import that returned, in a repository     *)
(* whose issues were all written by such imports, the remote issue of      *)
(* every desired issue carries exactly one scope: label and exactly one    *)
(* size: label, those of the values just imported.                         *)
(***************************************************************************)
C37_Labels(n, prefix) == { l \in tracker.remote[n].labels : l[1] = prefix }

C37_Imported == RealImportReturned /\ last.opts.autoCreateLabels

C37_OneLabelPerField ==
  C37_Imported =>
    \A i \in 1..Len(last.input) :
      \A n \in NumbersOf(last.input[i].GFS_ID, tracker.remote) :
        /\ Cardinality(C37_Labels(n, "scope")) = 1
        /\ Cardinality(C37_Labels(n, "size")) = 1
        /\ C37_Labels(n, "scope") \cup C37_Labels(n, "size")
             \subseteq AutoLabels(last.input[i])

\* the labels of the values just imported are among the issue's labels
C37_LatestLabelsPresent ==
  C37_Imported =>
    \A i \in 1..Len(last.input) :
      \A n \in NumbersOf(last.input[i].GFS_ID, tracker.remote) :
        \A k \in C19_Writes :
          extractGfsId(EngineCalls[k].body) = last.input[i].GFS_ID =>
            AutoLabels(last.input[i]) \subseteq tracker.remote[n].labels

\* the second import of an issue whose scope changed added the new labels
C37_LatestWitness ==
  /\ C37_Imported /\ runs = 2 /\ edits = 1
  /\ \E n \in NumbersOf(last.input[1].GFS_ID, tracker.remote) :
       /\ n \in 1..Len(last.before.remote)
       /\ last.before.remote[n].labels # tracker.remote[n].labels

(***************************************************************************)
(* C38.  After a real import that returned, the remote issue of every      *)
(* edit call of the run has the milestone the run resolved for the desired *)
(* issue and sent with the call, the empty one included: an issue updated  *)
(* without milestone has none afterwards.                                  *)
(***************************************************************************)
C38_Edits == EngineCallsOf({ "issue edit" })

C38_MilestoneFollowsUpdate ==
  RealImportReturned =>
    \A k \in C38_Edits :
      tracker.remote[EngineCalls[k].num].milestone = EngineCalls[k].milestone

\* the same for the updates that resolved a milestone
C38_ResolvedMilestoneIsSet ==
  RealImportReturned =>
    \A k \in C38_Edits :
      EngineCalls[k].milestone # "" =>
        tracker.remote[EngineCalls[k].num].milestone = EngineCalls[k].milestone

\* an update moved an issue from milestone m0 to m1
C38_ResolvedWitness ==
  /\ RealImportReturned
  /\ \E k \in C38_Edits :
       /\ EngineCalls[k].milestone = "m1"
       /\ last.before.remote[EngineCalls[k].num].milestone = "m0"
       /\ tracker.remote[EngineCalls[k].num].milestone = "m1"

(***************************************************************************)
(* C39.  A real auto-label import that returns, run on the same dataset    *)
(* right after an auto-label import that was aborted by the failure of a   *)
(* label-add call, leaves every desired issue's remote issue with its      *)
(* scope, size and priority labels.                                        *)
(***************************************************************************)
\* the last command is an import aborted at a label-add call
C39_AbortedAtLabels ==
  /\ last.cmd = "import" /\ ~last.returned /\ ~last.opts.dryRun
  /\ last.opts.autoCreateLabels
  /\ last.failIdx >= 1 /\ last.failKind = "labels"
  /\ EngineCalls # << >>
  /\ EngineCalls[Len(EngineCalls)].op = "add-label"

C39_Labelled(run, remote) ==
  \A i \in 1..Len(run.input) :
    /\ NumbersOf(run.input[i].GFS_ID, remote) # {}
    /\ \A n \in NumbersOf(run.input[i].GFS_ID, remote) :
         C19_Defaulted(run.input[i]) \subseteq remote[n].labels

C39_NextRunRepairsLabels ==
  [][ ( /\ C39_AbortedAtLabels
        /\ runs' = runs + 1
        /\ last'.cmd = "import" /\ last'.returned /\ ~last'.opts.dryRun
        /\ last'.opts.autoCreateLabels /\ last'.failIdx = -1
        /\ last'.input = last.input )
      => C39_Labelled(last', tracker'.remote) ]_vars

\* the same when the first run was aborted at its create or edit call: the
\* next run writes the issue and labels it
C39_NextRunRepairsWrites ==
  [][ ( /\ last.cmd = "import" /\ ~last.returned /\ ~last.opts.dryRun
        /\ last.opts.autoCreateLabels
        /\ last.failIdx = 1 /\ last.failKind = "write" /\ Len(last.input) = 1
        /\ EngineCalls # << >>
        /\ EngineCalls[Len(EngineCalls)].op \in { "issue create", "issue edit" }
        /\ runs' = runs + 1
        /\ last'.cmd = "import" /\ last'.returned /\ ~last'.opts.dryRun
        /\ last'.opts.autoCreateLabels /\ last'.failIdx = -1
        /\ last'.input = last.input )
      => C39_Labelled(last', tracker'.remote) ]_vars

(***************************************************************************)
(* C40.  Identities are compared without regard to letter case, as the     *)
(* validity check reads them: an import whose dataset holds two valid      *)
(* identities that differ only in case is rejected by the validation with  *)
(* a duplicate-identity error; and a desired issue whose identity differs  *)
(* only in case from the identity in a remote issue's body matches that    *)
(* issue, so the run sends no creation for it.                             *)
(***************************************************************************)
C40_Lower(id) == IF id = "A" THEN "a" ELSE id

C40_SameIdentity(x, y) == isValidUUID(x) /\ isValidUUID(y) /\ C40_Lower(x) = C40_Lower(y)

C40_IdentitiesCompareIgnoringCase ==
  last.cmd = "import" =>
    /\ \A j \in 1..Len(last.input) :
         (\E i \in 1..(j - 1) : C40_SameIdentity(last.input[i].GFS_ID, last.input[j].GFS_ID))
           => /\ \E e \in 1..Len(validateIssues(last.input, last.config)) :
                   validateIssues(last.input, last.config)[e] = Err(j + 1, "dup_id")
              /\ ~last.returned /\ last.calls = << >>
    /\ \A i \in 1..Len(last.input) :
         (\E n \in 1..Len(last.before.remote) :
            C40_SameIdentity(extractGfsId(last.before.remote[n].body), last.input[i].GFS_ID))
           => CreationsOf(last.input[i].GFS_ID) = {}

\* the same with identities compared as the strings they are
C40_IdentitiesCompareExactly ==
  last.cmd = "import" =>
    /\ \A j \in 1..Len(last.input) :
         (\E i \in 1..(j - 1) : isValidUUID(last.input[j].GFS_ID)
                                /\ last.input[i].GFS_ID = last.input[j].GFS_ID)
           => /\ \E e \in 1..Len(validateIssues(last.input, last.config)) :
                   validateIssues(last.input, last.config)[e] = Err(j + 1, "dup_id")
              /\ ~last.returned /\ last.calls = << >>
    /\ \A i \in 1..Len(last.input) :
         (\E n \in 1..Len(last.before.remote) :
            isValidUUID(last.input[i].GFS_ID)
            /\ extractGfsId(last.before.remote[n].body) = last.input[i].GFS_ID)
           => CreationsOf(last.input[i].GFS_ID) = {}

\* an import of identity A into a repository tracking a created a second
\* remote issue
C40_SecondIssueWitness ==
  /\ RealImportReturned
  /\ Len(last.input) = 1 /\ last.input[1].GFS_ID = "A"
  /\ NumbersOf("a", last.before.remote) # {}
  /\ CreationsOf("A") # {}

====
